---- MODULE Spec2Model ----
(***************************************************************************)
(* Model of the ingestion / dedup / filter pipeline of makeitmakesense.py  *)
(* (class PalantirIntelligenceProcessor and main).  One operating-system   *)
(* process at a time runs main(); the ledger file                          *)
(* processed_intelligence.pkl is the only state that survives a process.   *)
(***************************************************************************)
EXTENDS Integers, Sequences, FiniteSets, TLC

\* ------------------------------------------------------------------ bounds
NumFeeds   == 2        \* outlines in the catalog
MaxEntries == 2        \* entries a feed serves
MaxRuns    == 2        \* processes started one after the other
DaysBack   == 2        \* --days-back given on the command line
EntryLimit == 50       \* parsed_feed.entries[:50]
MinSentence == 30      \* len(sentence) > 30
MaxRelevant == 6       \* len(relevant_sentences) >= 6
FallbackCount == 2     \* sentences[:2]
DecimalDigits == 2     \* \d{2} of amount_pattern
EntityLimit == 5       \* amounts[:5], list(set(...))[:5]
CompanyWindow == 2     \* start = max(0, i-2)
MinCompany == 5        \* len(company) > 5
LimitOver  == 2        \* entries a long feed serves beyond EntryLimit
NumTasks   == 2        \* coroutines of process_rss_feeds on one event loop
MaxText    == 3        \* characters of a haystack
MaxKeywords == 2       \* keywords in the configured list
MaxSentences == 3      \* stretches of text in a short content
MaxWords   == 3        \* words of a short text
MaxOutlines == 3       \* outline elements of a catalog
MaxChunks  == 3        \* pieces an attribute value is written of
MaxItems   == 3        \* items of a report
MaxRetriesArg == 6     \* the largest max_retries summarize_with_claude is called with

\* ------------------------------------------------------------- data model
NoLink     == ""                    \* entry.get('link', '') of an entry without link
Ids        == {"u1", "u2"}          \* entry permalinks
Absent     == 0 - 1                 \* the entry has no such attribute
Unparsable == 0 - 2                 \* a date string dateutil cannot parse
EmptyStr   == 0 - 3                 \* the attribute is the empty string
Time0      == DaysBack + 1          \* clock of the first process
EdgeDate   == Time0 - DaysBack      \* exactly at the first run's cutoff
OldDate    == EdgeDate - 1          \* one time unit older than that cutoff
NewDate    == Time0

Feeds      == 1 .. NumFeeds
EmptyLedger == [x \in {} |-> 0]

\* lower() of the configured keywords
Lower == [k \in {"GDPR", "fine"} |-> IF k = "GDPR" THEN "gdpr" ELSE "fine"]

\* An entry as feedparser hands it over.  text is the set of lower-case
\* strings occurring in lower(title + " " + content); fault says where the
\* evaluation of the entry raises ("content": extract_content, "summary":
\* generate_summary / extract_entities).
\* published and updated are the wall-clock reading of the date string (or
\* one of the three values above); tz is the UTC offset the string carries,
\* {o} for an offset of o time units, NoTz for a string without one.
NoTz       == {}
Entry(l, p, t, f) ==
  [link |-> l, published |-> p, updated |-> Absent, tz |-> NoTz, text |-> t, fault |-> f]

EntryPool ==
  { Entry("u1", NewDate,    {"gdpr"},         "none"),
    Entry("u2", Absent,     {"gdpr", "fine"}, "none"),
    Entry("u1", OldDate,    {"gdpr"},         "none"),
    Entry("u2", EdgeDate,   {},               "none"),
    Entry(NoLink, NewDate,  {"gdpr"},         "none"),
    Entry("u2", Unparsable, {"fine"},         "summary"),
    Entry("u1", NewDate,    {},               "content") }

\* The entries the feeds of the several-process specification serve
LifePool ==
  { Entry("u1", EdgeDate,   {"gdpr"},         "none"),
    Entry("u2", Absent,     {"fine"},         "none"),
    Entry("u2", NewDate,    {"gdpr"},         "summary") }

SeqsUpTo(S, n) == UNION { [1 .. k -> S] : k \in 0 .. n }

KeywordFiles == { <<>>, <<"GDPR", "fine">> }

NoCall    == [fn |-> "none", done |-> TRUE]
NoRet     == <<>>
NoTasks   == <<>>

\* ArticleProcessor.__init__ (article_processor.py, lines 61-68): self.stats,
\* and beside it the notes written to the vault
NewArticleProcessor ==
  [stats |-> [total |-> 0, fetched |-> 0, summarized |-> 0, created |-> 0,
              failed |-> 0, errors |-> <<>>],
   notes |-> {}]

Missing   == [kind |-> "missing", data |-> EmptyLedger]
Corrupt   == [kind |-> "corrupt", data |-> EmptyLedger]
Stored(l) == [kind |-> "ok", data |-> l]

VARIABLES
  upstream,         \* what each feed URL serves: [Feeds -> Seq(Entry)]
  keywords_txt,     \* the file keywords.txt: [exists, lines]
  opml,             \* the file Reader_Feeds.opml: an OpmlFile
  keywords,         \* self.keywords
  disk,             \* the file processed_intelligence.pkl
  now,              \* the clock
  run,              \* processes started so far
  reset,            \* args.reset of the current process
  pc,               \* where the current process stands
  processed_items,  \* self.processed_items
  items,            \* items of process_rss_feeds
  fi,               \* index of the feed of the for loop
  ei,               \* index of the entry of the inner for loop
  \* history variables
  disk0,            \* the file when the process started
  ledger0,          \* self.processed_items as load_history returned it
  log,              \* the entries evaluated by this process
  fetchFailed,      \* feeds whose feedparser.parse raised in this process
  raisedAt,         \* feed -> index of the entry whose evaluation raised (0: none)
  wrote,            \* save_history of this process completed pickle.dump
  lastLedger,       \* self.processed_items when the process was interrupted
  batches,          \* id -> number of reported batches holding it
  resetUsed,        \* some process was started with --reset
  prev,             \* what the previous process left behind
  \* what runs beside main()
  tasks,            \* the coroutines of an event loop: [cur, st]
  call,             \* a function or script called on its own: [fn, done, ...]
  ret,              \* what that call returned
  article           \* the ArticleProcessor object: [stats, notes]

vars == << upstream, keywords_txt, opml, keywords, disk, now, run, reset, pc, processed_items,
           items, fi, ei, disk0, ledger0, log, fetchFailed, raisedAt, wrote,
           lastLedger, batches, resetUsed, prev, tasks, call, ret, article >>

\* ------------------------------------------------------- pure functions

\* dateutil.parser.parse and lines 111-112: the instant, in UTC, of a date
\* string; a string without offset is taken as UTC
ParsedUtc(date_str, tz) ==
  IF tz = NoTz THEN date_str ELSE date_str - (CHOOSE o \in tz : TRUE)

\* An is_recent whose window leaves its oldest instant out
is_recent_exclusive(entry, clock, days_back) ==
  LET date_str == IF entry.published # Absent THEN entry.published ELSE entry.updated
  IN  IF date_str \in {Absent, EmptyStr, Unparsable}
      THEN TRUE
      ELSE ParsedUtc(date_str, entry.tz) > clock - days_back

\* An is_recent that leaves out what it cannot date
is_recent_strict(entry, clock, days_back) ==
  LET date_str == IF entry.published # Absent THEN entry.published ELSE entry.updated
  IN  IF date_str \in {Absent, EmptyStr, Unparsable}
      THEN FALSE
      ELSE ParsedUtc(date_str, entry.tz) >= clock - days_back

\* is_recent (lines 97-124): published wins over updated; an absent, empty
\* or unparsable date string is recent.
is_recent(entry, clock, days_back) ==
  LET date_str == IF entry.published # Absent THEN entry.published ELSE entry.updated
  IN  IF date_str \in {Absent, EmptyStr, Unparsable}
      THEN TRUE
      ELSE ParsedUtc(date_str, entry.tz) >= clock - days_back

\* contains_keywords (lines 238-249): [has, matched]
contains_keywords(text, kws) ==
  LET Hit(k) == Lower[k] \in text
      matched == SelectSeq(kws, Hit)
  IN  IF kws = <<>>
      THEN [has |-> TRUE, matched |-> <<>>]
      ELSE [has |-> Len(matched) > 0, matched |-> matched]

\* ------------------------------------------------------ character strings
\* A string of the program is the sequence of its characters.
UpperCase == << "A", "B", "C", "D", "E", "F", "G", "H", "I", "J", "K", "L", "M", "N", "O", "P", "Q", "R", "S", "T", "U", "V", "W", "X", "Y", "Z" >>
LowerCase == << "a", "b", "c", "d", "e", "f", "g", "h", "i", "j", "k", "l", "m", "n", "o", "p", "q", "r", "s", "t", "u", "v", "w", "x", "y", "z" >>

\* str.lower(), on the letters A-Z
LowerChar(c) ==
  IF \E i \in 1 .. Len(UpperCase) : UpperCase[i] = c
  THEN LowerCase[CHOOSE i \in 1 .. Len(UpperCase) : UpperCase[i] = c]
  ELSE c
lower(str) == [i \in 1 .. Len(str) |-> LowerChar(str[i])]

\* needle in hay
In(needle, hay) ==
  \E i \in 0 .. Len(hay) - Len(needle) : SubSeq(hay, i + 1, i + Len(needle)) = needle

\* A contains_keywords that compares the text as it is written
contains_keywords_cased(text, kws) ==
  LET Hit(k) == In(k, text)
      matched == SelectSeq(kws, Hit)
  IN  IF kws = <<>>
      THEN [has |-> TRUE, matched |-> <<>>]
      ELSE [has |-> Len(matched) > 0, matched |-> matched]

\* contains_keywords (lines 238-249) on character strings: [has, matched]
contains_keywords_str(text, kws) ==
  LET text_lower == lower(text)
      Hit(k) == In(lower(k), text_lower)
      matched == SelectSeq(kws, Hit)
  IN  IF kws = <<>>
      THEN [has |-> TRUE, matched |-> <<>>]
      ELSE [has |-> Len(matched) > 0, matched |-> matched]

\* ------------------------------------------------------- generate_summary
\* A content is a sequence of stretches of text and of runs of the
\* characters . ! ? (Term), no two of a kind next to each other.  A stretch
\* of text is [len, words]: the length of its strip() and the set of
\* lower-case strings occurring in its lower(); a stretch of white space
\* has len 0.
Term == [len |-> 0 - 1, words |-> {}]
NoText == [len |-> 0, words |-> {}]

\* re.split(r'[.!?]+', content) (line 301): the text before, between and
\* after the runs, the empty string where there is none
RECURSIVE re_split_from(_, _, _)
re_split_from(content, i, piece) ==
  IF i > Len(content) THEN << piece >>
  ELSE IF content[i] = Term
       THEN << piece >> \o re_split_from(content, i + 1, NoText)
       ELSE re_split_from(content, i + 1, content[i])
re_split(content) == re_split_from(content, 1, NoText)

\* lines 305-312: the positions of the sentences the loop appends
RECURSIVE relevant_from(_, _, _, _)
relevant_from(sentences, kws, i, found) ==
  IF i > Len(sentences) THEN found
  ELSE IF /\ sentences[i].len > MinSentence
          /\ \E k \in 1 .. Len(kws) : Lower[kws[k]] \in sentences[i].words
       THEN IF Len(found) + 1 >= MaxRelevant
            THEN Append(found, i)
            ELSE relevant_from(sentences, kws, i + 1, Append(found, i))
       ELSE relevant_from(sentences, kws, i + 1, found)

\* A generate_summary without the fallback of lines 316-318
generate_summary_no_fallback(content, kws) ==
  [body |-> relevant_from(re_split(content), kws, 1, <<>>), tail |-> kws]

\* generate_summary (lines 300-324): [body, tail]; body lists the positions
\* (in sentences) of the sentences joined by ". ", tail is the list of
\* keywords of the trailing line, or <<>> without that line
generate_summary(content, kws) ==
  LET sentences == re_split(content)
      relevant_sentences == relevant_from(sentences, kws, 1, <<>>)
      head == 1 .. (IF Len(sentences) < FallbackCount THEN Len(sentences) ELSE FallbackCount)
      NonEmpty(i) == sentences[i].len > 0
      fallback == SelectSeq([i \in head |-> i], NonEmpty)
  IN  [body |-> IF relevant_sentences # <<>> THEN relevant_sentences ELSE fallback,
       tail |-> kws]

\* ------------------------------------------------------- extract_entities
Digits    == { "0", "1", "2", "3", "4", "5", "6", "7", "8", "9" }
\* The class of the four currency signs of amount_pattern: "EUR", "GBP" and
\* "JPY" stand for the one-character signs of euro, pound and yen
Currency  == { "$", "EUR", "GBP", "JPY" }
Space     == { " ", "\n", "\t" }
UpperSet  == { UpperCase[i] : i \in 1 .. Len(UpperCase) }
LowerSet  == { LowerCase[i] : i \in 1 .. Len(LowerCase) }
Range(seq) == { seq[i] : i \in 1 .. Len(seq) }

\* The character at position i, "" beyond the end of the text
At(text, i) == IF i >= 1 /\ i <= Len(text) THEN text[i] ELSE ""

\* Where the longest run of characters of S that starts at i ends
SpanEnd(text, i, S) ==
  CHOOSE j \in i .. Len(text) + 1 :
    /\ \A k \in i .. j - 1 : text[k] \in S
    /\ At(text, j) \notin S

StartsWith(text, i, lit) ==
  i + Len(lit) - 1 <= Len(text) /\ SubSeq(text, i, i + Len(lit) - 1) = lit
StartsWithNoCase(text, i, lit) ==
  i + Len(lit) - 1 <= Len(text) /\ lower(SubSeq(text, i, i + Len(lit) - 1)) = lit

\* (?:million|billion|thousand|M|B|K) under re.IGNORECASE, in lower case
ScaleWords ==
  << << "m", "i", "l", "l", "i", "o", "n" >>,
     << "b", "i", "l", "l", "i", "o", "n" >>,
     << "t", "h", "o", "u", "s", "a", "n", "d" >>,
     << "m" >>,
     << "b" >>,
     << "k" >> >>

\* amount_pattern (line 351) matched at position i: the position after the
\* match, 0 without match.  Every part after [\d,]+ is optional, so the
\* longest choice of each part is the match.
amount_end(text, i) ==
  IF At(text, i) \notin Currency THEN 0
  ELSE LET j1 == SpanEnd(text, i + 1, Digits \cup {","})
       IN  IF j1 = i + 1 THEN 0
           ELSE LET j2 == IF /\ At(text, j1) = "."
                             /\ \A d \in 1 .. DecimalDigits : At(text, j1 + d) \in Digits
                          THEN j1 + 1 + DecimalDigits
                          ELSE j1
                    j3 == SpanEnd(text, j2, Space)
                    hits == { w \in 1 .. Len(ScaleWords) :
                                StartsWithNoCase(text, j3, ScaleWords[w]) }
                IN  IF hits = {} THEN j3
                    ELSE j3 + Len(ScaleWords[CHOOSE w \in hits : \A x \in hits : w <= x])

\* re.findall(amount_pattern, text, re.IGNORECASE) (line 352)
RECURSIVE findall_amounts(_, _)
findall_amounts(text, p) ==
  IF p > Len(text) THEN <<>>
  ELSE LET e == amount_end(text, p)
       IN  IF e = 0 THEN findall_amounts(text, p + 1)
           ELSE << SubSeq(text, p, e - 1) >> \o findall_amounts(text, e)

\* [A-Z][a-z]+ at position k: the position after the match, 0 without
name_end(text, k) ==
  IF At(text, k) \notin UpperSet THEN 0
  ELSE LET j == SpanEnd(text, k + 1, LowerSet)
       IN  IF j = k + 1 THEN 0 ELSE j

\* (?:\s+[A-Z][a-z]+)* from position j on
RECURSIVE more_names(_, _)
more_names(text, j) ==
  LET ws == SpanEnd(text, j, Space)
      n  == IF ws > j THEN name_end(text, ws) ELSE 0
  IN  IF n = 0 THEN j ELSE more_names(text, n)

\* 'Department of [A-Z][a-z]+(?:\s+[A-Z][a-z]+)*' (line 357) and
\* 'Office of ...' (line 359) at position i, lit being the literal start
titled_end(text, i, lit) ==
  IF ~ StartsWith(text, i, lit) THEN 0
  ELSE LET first == name_end(text, i + Len(lit))
       IN  IF first = 0 THEN 0 ELSE more_names(text, first)

RECURSIVE findall_titled(_, _, _)
findall_titled(text, p, lit) ==
  IF p > Len(text) THEN <<>>
  ELSE LET e == titled_end(text, p, lit)
       IN  IF e = 0 THEN findall_titled(text, p + 1, lit)
           ELSE << SubSeq(text, p, e - 1) >> \o findall_titled(text, e, lit)

\* 'DOD|Pentagon|CIA|FBI|NSA|DHS|ICE|CBP' (line 358)
Abbreviations ==
  << << "D", "O", "D" >>,
     << "P", "e", "n", "t", "a", "g", "o", "n" >>,
     << "C", "I", "A" >>,
     << "F", "B", "I" >>,
     << "N", "S", "A" >>,
     << "D", "H", "S" >>,
     << "I", "C", "E" >>,
     << "C", "B", "P" >> >>
DepartmentOf == << "D", "e", "p", "a", "r", "t", "m", "e", "n", "t", " ", "o", "f", " " >>
OfficeOf     == << "O", "f", "f", "i", "c", "e", " ", "o", "f", " " >>

abbreviation_end(text, i) ==
  LET hits == { a \in 1 .. Len(Abbreviations) : StartsWith(text, i, Abbreviations[a]) }
  IN  IF hits = {} THEN 0
      ELSE i + Len(Abbreviations[CHOOSE a \in hits : \A x \in hits : a <= x])

RECURSIVE findall_abbreviations(_, _)
findall_abbreviations(text, p) ==
  IF p > Len(text) THEN <<>>
  ELSE LET e == abbreviation_end(text, p)
       IN  IF e = 0 THEN findall_abbreviations(text, p + 1)
           ELSE << SubSeq(text, p, e - 1) >> \o findall_abbreviations(text, e)

\* text.split() (line 371)
RECURSIVE split_from(_, _)
split_from(text, p) ==
  LET b == SpanEnd(text, p, Space)
  IN  IF b > Len(text) THEN <<>>
      ELSE LET e == CHOOSE j \in b + 1 .. Len(text) + 1 :
                      /\ \A k \in b .. j - 1 : text[k] \notin Space
                      /\ (j = Len(text) + 1 \/ text[j] \in Space)
           IN  << SubSeq(text, b, e - 1) >> \o split_from(text, e)
split(text) == split_from(text, 1)

\* ' '.join(words)
RECURSIVE join(_)
join(words) ==
  IF Len(words) = 0 THEN <<>>
  ELSE IF Len(words) = 1 THEN words[1]
  ELSE words[1] \o << " " >> \o join(Tail(words))

\* company_indicators (line 370)
CompanyIndicators ==
  << << "I", "n", "c" >>,
     << "C", "o", "r", "p" >>,
     << "L", "L", "C" >>,
     << "L", "t", "d" >>,
     << "T", "e", "c", "h", "n", "o", "l", "o", "g", "i", "e", "s" >>,
     << "S", "y", "s", "t", "e", "m", "s" >>,
     << "G", "m", "b", "H" >> >>

\* lines 373-377: the names the loop over the words appends
companies_of(text) ==
  LET words == split(text)
      Named(i) == \E c \in 1 .. Len(CompanyIndicators) : In(CompanyIndicators[c], words[i])
      company(i) == join(SubSeq(words, IF i - CompanyWindow < 1 THEN 1 ELSE i - CompanyWindow, i))
      Kept(i) == Named(i) /\ Len(company(i)) > MinCompany
      kept == SelectSeq([i \in 1 .. Len(words) |-> i], Kept)
  IN  [j \in 1 .. Len(kept) |-> company(kept[j])]

Take(seq, n) == SubSeq(seq, 1, IF Len(seq) < n THEN Len(seq) ELSE n)

\* What the three searches found, before lines 379-380
found_entities(text) ==
  [companies |-> companies_of(text),
   agencies  |-> findall_titled(text, 1, DepartmentOf)
                   \o findall_abbreviations(text, 1)
                   \o findall_titled(text, 1, OfficeOf),
   amounts   |-> Take(findall_amounts(text, 1), EntityLimit),
   people    |-> <<>>]

\* list(set(l))[:5] (line 380): the order of a set is any, so every list
\* without repetition of 5 of the elements (of all, if fewer) is possible
dedup_limit(l) ==
  LET S == Range(l)
      m == IF Cardinality(S) < EntityLimit THEN Cardinality(S) ELSE EntityLimit
  IN  { q \in [1 .. m -> S] : \A i, j \in 1 .. m : q[i] = q[j] => i = j }

\* An extract_entities that returns what the searches found
extract_entities_found(text) == { found_entities(text) }

\* extract_entities (lines 342-382): the results the call can return
extract_entities(text) ==
  LET f == found_entities(text)
  IN  { [companies |-> c, agencies |-> g, amounts |-> a, people |-> pp] :
          c \in dedup_limit(f.companies), g \in dedup_limit(f.agencies),
          a \in dedup_limit(f.amounts), pp \in dedup_limit(f.people) }

\* -------------------------------------------------------------- parse_opml
\* The catalog file: kind is "none" (no path given), "missing",
\* "unreadable" (open or read raises), "malformed" (ET.fromstring raises)
\* or "ok"; outlines lists the outline elements below the root in document
\* order, each the function from the names of its attributes to their values.
OpmlFile(k, o) == [kind |-> k, outlines |-> o]

\* outline.get(name, default)
Get(outline, name, default) == IF name \in DOMAIN outline THEN outline[name] ELSE default

\* root.findall(".//outline[@xmlUrl]") (line 211)
WithXmlUrl(outline) == "xmlUrl" \in DOMAIN outline

\* lines 212-220: the feed of an outline
FeedOf(outline) ==
  [title |-> Get(outline, "title", "Unnamed Feed"), url |-> outline["xmlUrl"], type |-> "rss"]

\* A parse_opml without the test of line 215
parse_opml_any_url(file) ==
  IF file.kind # "ok"
  THEN [raised |-> FALSE, feeds |-> <<>>]
  ELSE LET found == SelectSeq(file.outlines, WithXmlUrl)
       IN  [raised |-> FALSE, feeds |-> [i \in 1 .. Len(found) |-> FeedOf(found[i])]]

\* parse_opml (lines 198-225) on an empty self.feeds: [raised, feeds]
parse_opml(file) ==
  IF file.kind \in {"none", "missing"}
  THEN [raised |-> FALSE, feeds |-> <<>>]                       \* lines 198-200
  ELSE IF file.kind \in {"unreadable", "malformed"}
  THEN [raised |-> FALSE, feeds |-> <<>>]                       \* lines 224-225
  ELSE LET HasUrl(outline) == outline["xmlUrl"] # ""
           found == SelectSeq(SelectSeq(file.outlines, WithXmlUrl), HasUrl)
       IN  [raised |-> FALSE, feeds |-> [i \in 1 .. Len(found) |-> FeedOf(found[i])]]

\* ------------------------------------------------- the text of a catalog
\* A catalog as it is written: the outline elements in document order, each
\* the function from the names of its attributes to their values as the
\* file spells them (character strings, references not yet resolved).
\* The five names of the lookahead of line 207, and what XML makes of them
EntityNames == << << "a", "m", "p", ";" >>, << "l", "t", ";" >>, << "g", "t", ";" >>, << "a", "p", "o", "s", ";" >>, << "q", "u", "o", "t", ";" >> >>
EntityChars == << "&", "<", ">", "'", "\"" >>
\* The character references the texts of the model use: &#38; and &#x26;
AmpersandRefs == { << "#", "3", "8", ";" >>, << "#", "x", "2", "6", ";" >> }
AmpEscaped == << "&", "a", "m", "p", ";" >>

EntityAt(value, p) ==
  { n \in 1 .. Len(EntityNames) : StartsWith(value, p, EntityNames[n]) }

\* re.sub(r'&(?!amp;|lt;|gt;|apos;|quot;)', '&amp;', content) (line 207),
\* from position p on
RECURSIVE re_sub(_, _)
re_sub(value, p) ==
  IF p > Len(value) THEN <<>>
  ELSE IF value[p] = "&" /\ EntityAt(value, p + 1) = {}
       THEN AmpEscaped \o re_sub(value, p + 1)
       ELSE << value[p] >> \o re_sub(value, p + 1)

\* What the XML parser (ET.fromstring, line 208) makes of an attribute
\* value, from position p on: [ok, text]; ok is FALSE where it raises
\* ParseError (an & that starts no reference, a <)
RECURSIVE xml_value(_, _)
xml_value(value, p) ==
  IF p > Len(value) THEN [ok |-> TRUE, text |-> <<>>]
  ELSE IF value[p] = "<" THEN [ok |-> FALSE, text |-> <<>>]
  ELSE IF value[p] # "&"
       THEN LET r == xml_value(value, p + 1)
            IN  [ok |-> r.ok, text |-> << value[p] >> \o r.text]
  ELSE IF EntityAt(value, p + 1) # {}
       THEN LET n == CHOOSE n \in EntityAt(value, p + 1) : TRUE
                r == xml_value(value, p + 1 + Len(EntityNames[n]))
            IN  [ok |-> r.ok, text |-> << EntityChars[n] >> \o r.text]
  ELSE LET refs == { a \in AmpersandRefs : StartsWith(value, p + 1, a) }
       IN  IF refs = {} THEN [ok |-> FALSE, text |-> <<>>]
           ELSE LET a == CHOOSE a \in refs : TRUE
                    r == xml_value(value, p + 1 + Len(a))
                IN  [ok |-> r.ok, text |-> << "&" >> \o r.text]

\* The string of a sequence of characters
Str(chars) == IF chars = <<>> THEN "" ELSE ToString(chars)

\* ET.fromstring on the text of a catalog: the catalog parse_opml walks
ET_fromstring(outlines) ==
  IF \E i \in 1 .. Len(outlines) : \E a \in DOMAIN outlines[i] :
        ~ xml_value(outlines[i][a], 1).ok
  THEN OpmlFile("malformed", <<>>)
  ELSE OpmlFile("ok", [i \in 1 .. Len(outlines) |->
                        [a \in DOMAIN outlines[i] |-> Str(xml_value(outlines[i][a], 1).text)]])

\* The pre-pass on every attribute value (the markup itself holds no &)
Repaired(outlines) ==
  [i \in 1 .. Len(outlines) |-> [a \in DOMAIN outlines[i] |-> re_sub(outlines[i][a], 1)]]

\* parse_opml (lines 202-221) on the text of a catalog that exists
parse_opml_text(outlines) == parse_opml(ET_fromstring(Repaired(outlines)))

\* ------------------------------------------- generate_intelligence_report
\* The order of str: character by character, by code point
CodeOrder ==
  << " ", ",", "-", ":" >> \o [i \in 1 .. 10 |-> CHOOSE c \in Digits : ToString(i - 1) = c]
    \o UpperCase \o LowerCase
CodeOf(c) == CHOOSE i \in 1 .. Len(CodeOrder) : CodeOrder[i] = c

\* a < b for two strings
StrLess(a, b) ==
  \E k \in 1 .. Len(b) :
    /\ \A j \in 1 .. k - 1 : j <= Len(a) /\ a[j] = b[j]
    /\ (k > Len(a) \/ (k - 1 < Len(a) /\ CodeOf(a[k]) < CodeOf(b[k])))

\* sorted(l, key=lambda x: x.get('date', ''), reverse=True) (lines 531-535):
\* the positions of l in the order of the result; the sort is stable, and
\* reverse keeps the order of equal keys
sorted_by_date(l) ==
  CHOOSE q \in [1 .. Len(l) -> 1 .. Len(l)] :
    /\ \A i, j \in 1 .. Len(l) : q[i] = q[j] => i = j
    /\ \A i, j \in 1 .. Len(l) :
          i < j => \/ StrLess(l[q[j]].date, l[q[i]].date)
                   \/ (l[q[j]].date = l[q[i]].date /\ q[i] < q[j])

\* The items handed to generate_stats and generate_html_content (lines 538-541)
report_items(results) ==
  LET q == sorted_by_date(results) IN [i \in 1 .. Len(results) |-> results[q[i]]]

\* A load_history without its except clause
load_history_unguarded(file) ==
  IF file.kind = "ok"
  THEN [raised |-> FALSE, value |-> file.data]
  ELSE [raised |-> file.kind = "corrupt", value |-> EmptyLedger]

\* load_history (lines 137-144): [raised, value]
load_history(file) ==
  IF file.kind = "ok"
  THEN [raised |-> FALSE, value |-> file.data]
  ELSE [raised |-> FALSE, value |-> EmptyLedger]

\* isinstance(value, dict) (export_to_json.py, line 42) of a ledger value:
\* the values line 455 stores are timestamps
IsDict(value) == value \notin Int

\* export_to_json (export_to_json.py, lines 24-70): [written, total_items,
\* items]; written is FALSE where the function returns None
export_to_json(file) ==
  IF file.kind # "ok"
  THEN [written |-> FALSE, total_items |-> 0, items |-> <<>>]
  ELSE LET dicts == { k \in DOMAIN file.data : IsDict(file.data[k]) }
       IN  [written |-> TRUE, total_items |-> Cardinality(dicts),
            items |-> [k \in dicts |-> file.data[k]]]

\* A pickle.dump of something else than the ledger of this process
pickle_dump_stale(ledger) == Stored(ledger0)

\* pickle.dump(self.processed_items, f) (line 159), completed
pickle_dump(ledger) == Stored(ledger)

\* The inner loop without its keyword test
VerdictNoKeywords(entry, ledger, clock, kws) ==
  IF entry.link = NoLink \/ entry.link \in DOMAIN ledger THEN "duplicate"
  ELSE IF ~ is_recent(entry, clock, DaysBack)            THEN "stale"
  ELSE IF entry.fault # "none"                           THEN "raised"
  ELSE "accepted"

\* The inner loop with the recency test put first
VerdictRecencyFirst(entry, ledger, clock, kws) ==
  IF ~ is_recent(entry, clock, DaysBack)                      THEN "stale"
  ELSE IF entry.link = NoLink \/ entry.link \in DOMAIN ledger THEN "duplicate"
  ELSE IF entry.fault = "content"                             THEN "raised"
  ELSE IF ~ contains_keywords(entry.text, kws).has            THEN "rejected"
  ELSE IF entry.fault = "summary"                             THEN "raised"
  ELSE "accepted"

\* What becomes of one entry of the inner loop (lines 416-455), given the ledger.
Verdict(entry, ledger, clock, kws) ==
  IF entry.link = NoLink \/ entry.link \in DOMAIN ledger THEN "duplicate"
  ELSE IF ~ is_recent(entry, clock, DaysBack)            THEN "stale"
  ELSE IF entry.fault = "content"                        THEN "raised"
  ELSE IF ~ contains_keywords(entry.text, kws).has       THEN "rejected"
  ELSE IF entry.fault = "summary"                        THEN "raised"
  ELSE "accepted"

\* The item appended at lines 441-452.
Item(entry, src, kws) ==
  [id |-> entry.link, url |-> entry.link,
   date |-> IF entry.published = Absent THEN EmptyStr ELSE entry.published,
   source |-> src, keywords |-> contains_keywords(entry.text, kws).matched]

\* An acceptance that leaves the ledger alone
InsertNothing(ledger, key, clock) == ledger

\* An insertion that stamps every key of the ledger anew
InsertRestamping(ledger, key, clock) == [x \in DOMAIN ledger \cup {key} |-> clock]

\* self.processed_items[entry_url] = datetime.now().isoformat() (line 455)
Insert(ledger, key, clock) ==
  [x \in DOMAIN ledger \cup {key} |-> IF x = key THEN clock ELSE ledger[x]]

\* The inner loop over every entry the feed serves
ExaminedAll(f) == upstream[f]

\* parsed_feed.entries[:50] (line 415)
Examined(f) == SubSeq(upstream[f], 1, IF Len(upstream[f]) < EntryLimit
                                       THEN Len(upstream[f]) ELSE EntryLimit)

ItemIds(its) == { its[i].id : i \in 1 .. Len(its) }

\* ------------------------------------------------------------------- Init
NoPrev == [done |-> FALSE, wrote |-> FALSE, failed |-> {}, size |-> 0,
           ledger |-> EmptyLedger]

Volatile ==
  /\ keywords = <<>>
  /\ processed_items = EmptyLedger
  /\ items = <<>>
  /\ fi = 0
  /\ ei = 0
  /\ ledger0 = EmptyLedger
  /\ log = <<>>
  /\ fetchFailed = {}
  /\ raisedAt = [f \in Feeds |-> 0]
  /\ wrote = FALSE

\* The memory of a process that has not started yet
Fresh ==
  /\ keywords' = <<>>
  /\ processed_items' = EmptyLedger
  /\ items' = <<>>
  /\ fi' = 0
  /\ ei' = 0
  /\ ledger0' = EmptyLedger
  /\ log' = <<>>
  /\ fetchFailed' = {}
  /\ raisedAt' = [f \in Feeds |-> 0]
  /\ wrote' = FALSE

\* What Init and InitRun share
InitRest ==
  /\ disk \in { Missing, Stored([x \in {"u1"} |-> 0]) }
  /\ now = Time0
  /\ reset = FALSE
  /\ pc = "off"
  /\ Volatile
  /\ disk0 = disk
  /\ lastLedger = EmptyLedger
  /\ batches = [i \in Ids |-> 0]
  /\ resetUsed = FALSE
  /\ prev = NoPrev
  /\ tasks = NoTasks
  /\ call = NoCall
  /\ ret = NoRet
  /\ article = NewArticleProcessor

\* The catalog that lists the NumFeeds feeds
Catalog ==
  OpmlFile("ok", [f \in Feeds |-> [title |-> ToString(f), xmlUrl |-> ToString(f)]])

\* MaxRuns processes, one after the other, over the same upstream
Init ==
  /\ upstream \in [Feeds -> SeqsUpTo(LifePool, MaxEntries)]
  /\ keywords_txt \in { [exists |-> FALSE, lines |-> <<>>] }
                      \cup { [exists |-> TRUE, lines |-> k] : k \in KeywordFiles }
  /\ opml \in { Catalog, OpmlFile("missing", <<>>), OpmlFile("malformed", <<>>) }
  /\ run = 0
  /\ InitRest

\* The last of the processes alone, over every upstream of EntryPool
InitRun ==
  /\ upstream \in [Feeds -> SeqsUpTo(EntryPool, MaxEntries)]
  /\ keywords_txt \in { [exists |-> TRUE, lines |-> k] : k \in KeywordFiles }
  /\ opml = Catalog
  /\ run = MaxRuns - 1
  /\ InitRest

\* A feed of n entries with a permalink each; every third one is too old,
\* every fifth one is off topic, the others pass every test
LongFeed(n) ==
  [i \in 1 .. n |->
     Entry(ToString(i),
           IF i % 3 = 0 THEN OldDate ELSE NewDate,
           IF i % 5 = 0 THEN {} ELSE {"gdpr"},
           "none")]

\* One process over a first feed that serves about EntryLimit entries
InitLimit ==
  /\ \E n \in EntryLimit - 1 .. EntryLimit + LimitOver :
       \E rest \in [Feeds \ {1} -> SeqsUpTo(LifePool, 1)] :
         upstream = [f \in Feeds |-> IF f = 1 THEN LongFeed(n) ELSE rest[f]]
  /\ keywords_txt \in { [exists |-> TRUE, lines |-> k] : k \in KeywordFiles }
  /\ opml = Catalog
  /\ run = MaxRuns - 1
  /\ InitRest

\* ---------------------------------------------------------------- actions
Ended == pc \in {"off", "done", "crashed", "failed", "aborted"}

\* A new process is started: python3 makeitmakesense.py [--reset]
StartProcess ==
  /\ Ended
  /\ run < MaxRuns
  /\ run' = run + 1
  /\ reset' \in BOOLEAN
  /\ resetUsed' = (resetUsed \/ reset')
  /\ now' \in IF run = 0 THEN {now} ELSE {now, now + 1}
  /\ pc' = "keywords"
  /\ Fresh
  /\ disk0' = disk
  /\ lastLedger' = EmptyLedger
  /\ prev' = IF pc = "done"
             THEN [done |-> TRUE, wrote |-> wrote,
                   failed |-> fetchFailed \cup {f \in Feeds : raisedAt[f] > 0},
                   size |-> Len(items), ledger |-> processed_items]
             ELSE NoPrev
  /\ call' = NoCall
  /\ ret' = NoRet
  /\ UNCHANGED << upstream, keywords_txt, opml, disk, batches, tasks, article >>

\* main, lines 882-884: open('keywords.txt') raises when the file is missing
LoadKeywords ==
  /\ pc = "keywords"
  /\ IF keywords_txt.exists
     THEN /\ keywords' = keywords_txt.lines
          /\ pc' = "init"
     ELSE /\ pc' = "crashed"
          /\ UNCHANGED keywords
  /\ UNCHANGED << upstream, keywords_txt, opml, disk, now, run, reset, processed_items, items,
                  fi, ei, disk0, ledger0, log, fetchFailed, raisedAt, wrote,
                  lastLedger, batches, resetUsed, prev, tasks, call, ret, article >>

\* __init__, line 72: self.processed_items = self.load_history()
Construct ==
  /\ pc = "init"
  /\ LET h == load_history(disk)
     IN  IF h.raised
         THEN /\ pc' = "crashed"
              /\ UNCHANGED << processed_items, ledger0 >>
         ELSE /\ processed_items' = h.value
              /\ ledger0' = h.value
              /\ pc' = "reset"
  /\ UNCHANGED << upstream, keywords_txt, opml, keywords, disk, now, run, reset, items,
                  fi, ei, disk0, log, fetchFailed, raisedAt, wrote,
                  lastLedger, batches, resetUsed, prev, tasks, call, ret, article >>

\* main, lines 895-900: os.remove(processor.history_file), its failure caught
ResetHistory ==
  /\ pc = "reset"
  /\ IF reset /\ disk.kind # "missing"
     THEN disk' \in {Missing, disk}
     ELSE disk' = disk
  /\ pc' = "opml"
  /\ UNCHANGED << upstream, keywords_txt, opml, keywords, now, run, reset, processed_items,
                  items, fi, ei, disk0, ledger0, log, fetchFailed, raisedAt, wrote,
                  lastLedger, batches, resetUsed, prev, tasks, call, ret, article >>

\* main, line 903, and the start of process_rss_feeds (line 402): the
\* catalog lists the feeds 1 .. NumFeeds
ParseOpml ==
  /\ pc = "opml"
  /\ fi' = IF parse_opml(opml).feeds = <<>> THEN NumFeeds + 1 ELSE 1
  /\ items' = <<>>
  /\ pc' = "feed"
  /\ UNCHANGED << upstream, keywords_txt, opml, keywords, disk, now, run, reset,
                  processed_items, ei, disk0, ledger0, log, fetchFailed, raisedAt,
                  wrote, lastLedger, batches, resetUsed, prev, tasks, call, ret, article >>

\* An except clause outside the for loop: the first failure ends the loop
AfterRaiseAbort(f) == NumFeeds + 1

\* The feed the for loop goes on with after the except clause (lines 460-461)
AfterRaise(f) == f + 1

\* lines 410-412: feedparser.parse(feed['url']) returns or raises
FetchFeed ==
  /\ pc = "feed"
  /\ fi <= NumFeeds
  /\ \E raises \in BOOLEAN :
       IF raises
       THEN /\ fetchFailed' = fetchFailed \cup {fi}
            /\ fi' = AfterRaise(fi)
            /\ UNCHANGED << pc, ei >>
       ELSE /\ ei' = 1
            /\ pc' = "entries"
            /\ UNCHANGED << fi, fetchFailed >>
  /\ UNCHANGED << upstream, keywords_txt, opml, keywords, disk, now, run, reset,
                  processed_items, items, disk0, ledger0, log, raisedAt, wrote,
                  lastLedger, batches, resetUsed, prev, tasks, call, ret, article >>

\* lines 415-455: one round of the inner for loop
EvalEntry ==
  /\ pc = "entries"
  /\ ei <= Len(Examined(fi))
  /\ LET e == Examined(fi)[ei]
         v == Verdict(e, processed_items, now, keywords)
     IN  /\ log' = Append(log, [feed |-> fi, idx |-> ei, entry |-> e,
                                known |-> e.link \in DOMAIN processed_items,
                                outcome |-> v])
         /\ IF v = "accepted"
            THEN /\ items' = Append(items, Item(e, fi, keywords))
                 /\ processed_items' = Insert(processed_items, e.link, now)
                 /\ ei' = ei + 1
                 /\ UNCHANGED << fi, pc, raisedAt >>
            ELSE IF v = "raised"
            THEN /\ raisedAt' = [raisedAt EXCEPT ![fi] = ei]
                 /\ fi' = AfterRaise(fi)
                 /\ ei' = 0
                 /\ pc' = "feed"
                 /\ UNCHANGED << items, processed_items >>
            ELSE /\ ei' = ei + 1
                 /\ UNCHANGED << items, processed_items, fi, pc, raisedAt >>
  /\ UNCHANGED << upstream, keywords_txt, opml, keywords, disk, now, run, reset,
                  disk0, ledger0, fetchFailed, wrote, lastLedger, batches,
                  resetUsed, prev, tasks, call, ret, article >>

\* line 458: await asyncio.sleep(1), the one suspension point
Sleep ==
  /\ pc = "entries"
  /\ ei > Len(Examined(fi))
  /\ pc' = "sleep"
  /\ UNCHANGED << upstream, keywords_txt, opml, keywords, disk, now, run, reset,
                  processed_items, items, fi, ei, disk0, ledger0, log, fetchFailed,
                  raisedAt, wrote, lastLedger, batches, resetUsed, prev, tasks, call, ret, article >>

Wake ==
  /\ pc = "sleep"
  /\ fi' = fi + 1
  /\ ei' = 0
  /\ pc' = "feed"
  /\ UNCHANGED << upstream, keywords_txt, opml, keywords, disk, now, run, reset,
                  processed_items, items, disk0, ledger0, log, fetchFailed,
                  raisedAt, wrote, lastLedger, batches, resetUsed, prev, tasks, call, ret, article >>

\* line 463 and process_all_sources, lines 488-498
ReturnItems ==
  /\ pc = "feed"
  /\ fi > NumFeeds
  /\ pc' = "save"
  /\ UNCHANGED << upstream, keywords_txt, opml, keywords, disk, now, run, reset,
                  processed_items, items, fi, ei, disk0, ledger0, log, fetchFailed,
                  raisedAt, wrote, lastLedger, batches, resetUsed, prev, tasks, call, ret, article >>

\* save_history, lines 156-158: makedirs and open(..., 'wb'); opening
\* truncates the file; a failure is caught and printed (lines 161-162)
SaveOpen ==
  /\ pc = "save"
  /\ \E ok \in BOOLEAN :
       IF ok
       THEN /\ disk' = Corrupt
            /\ pc' = "dump"
       ELSE /\ pc' = "returned"
            /\ UNCHANGED disk
  /\ UNCHANGED << upstream, keywords_txt, opml, keywords, now, run, reset,
                  processed_items, items, fi, ei, disk0, ledger0, log, fetchFailed,
                  raisedAt, wrote, lastLedger, batches, resetUsed, prev, tasks, call, ret, article >>

\* save_history, line 159: pickle.dump; a failure (lines 161-162) leaves
\* the truncated or partly written file
SaveDump ==
  /\ pc = "dump"
  /\ \E ok \in BOOLEAN :
       IF ok
       THEN /\ disk' = pickle_dump(processed_items)
            /\ wrote' = TRUE
       ELSE UNCHANGED << disk, wrote >>
  /\ pc' = "returned"
  /\ UNCHANGED << upstream, keywords_txt, opml, keywords, now, run, reset,
                  processed_items, items, fi, ei, disk0, ledger0, log, fetchFailed,
                  raisedAt, lastLedger, batches, resetUsed, prev, tasks, call, ret, article >>

\* A report that may fail even when there is nothing to report
report_raises_unguarded(found) == BOOLEAN

\* Whether generate_intelligence_report raises: never when nothing was found
\* (line 915 skips the call), otherwise when os.makedirs or the open and
\* write of lines 528, 544-545 raise
report_raises(found) == IF found = <<>> THEN {FALSE} ELSE BOOLEAN

\* main, lines 914-925: the batch goes to the report, the process exits with
\* 0, or with 1 when the except clause of line 921 caught an exception
Finish ==
  /\ pc = "returned"
  /\ \E raised \in report_raises(items) :
       IF raised
       THEN /\ pc' = "failed"                                 \* lines 921-923
            /\ UNCHANGED batches
       ELSE /\ pc' = "done"
            /\ batches' = [i \in Ids |-> IF i \in ItemIds(items) THEN batches[i] + 1
                                                                 ELSE batches[i]]
  /\ UNCHANGED << upstream, keywords_txt, opml, keywords, disk, now, run, reset,
                  processed_items, items, fi, ei, disk0, ledger0, log, fetchFailed,
                  raisedAt, wrote, lastLedger, resetUsed, prev, tasks, call, ret, article >>

\* The process is interrupted (killed, KeyboardInterrupt): its memory is lost
Running == pc \in {"keywords", "init", "reset", "opml", "feed", "entries", "sleep",
                   "save", "dump", "returned"}

Interrupt ==
  /\ Running
  /\ pc' = "aborted"
  /\ lastLedger' = processed_items
  /\ Fresh
  /\ UNCHANGED << upstream, keywords_txt, opml, disk, now, run, reset, disk0,
                  batches, resetUsed, prev, tasks, call, ret, article >>

\* python3 export_to_json.py, run while no process of makeitmakesense.py is
ExportToJson ==
  /\ Ended
  /\ call.fn = "none"
  /\ call' = [fn |-> "export_to_json", done |-> TRUE, file |-> disk]
  /\ ret' = export_to_json(disk)
  /\ UNCHANGED << upstream, keywords_txt, opml, keywords, disk, now, run, reset, pc,
                  processed_items, items, fi, ei, disk0, ledger0, log, fetchFailed,
                  raisedAt, wrote, lastLedger, batches, resetUsed, prev, tasks,
                  article >>

Next ==
  \/ StartProcess
  \/ LoadKeywords
  \/ Construct
  \/ ResetHistory
  \/ ParseOpml
  \/ FetchFeed
  \/ EvalEntry
  \/ Sleep
  \/ Wake
  \/ ReturnItems
  \/ SaveOpen
  \/ SaveDump
  \/ Finish
  \/ Interrupt
  \/ ExportToJson

Spec == Init /\ [][Next]_vars

SpecRun == InitRun /\ [][Next]_vars

SpecLimit == InitLimit /\ [][Next]_vars

\* ------------------------------------------- functions called on their own
\* Everything of main() that is at rest while something else is looked at
PipelineOff ==
  /\ keywords_txt = [exists |-> TRUE, lines |-> <<>>]
  /\ opml = Catalog
  /\ disk = Missing
  /\ run = MaxRuns
  /\ reset = FALSE
  /\ pc = "off"
  /\ items = <<>>
  /\ fi = 0
  /\ ei = 0
  /\ disk0 = Missing
  /\ ledger0 = EmptyLedger
  /\ fetchFailed = {}
  /\ raisedAt = [f \in Feeds |-> 0]
  /\ wrote = FALSE
  /\ lastLedger = EmptyLedger
  /\ batches = [i \in Ids |-> 0]
  /\ resetUsed = FALSE
  /\ prev = NoPrev

pipelineOff == << keywords_txt, opml, disk, run, reset, pc, items, fi, ei, disk0, ledger0,
                  fetchFailed, raisedAt, wrote, lastLedger, batches, resetUsed, prev >>

\* main() and the event loop at rest
AllOff ==
  /\ upstream = [f \in Feeds |-> <<>>]
  /\ keywords = <<>>
  /\ processed_items = EmptyLedger
  /\ now = Time0
  /\ log = <<>>
  /\ tasks = NoTasks
  /\ article = NewArticleProcessor
  /\ PipelineOff

allOff == << upstream, keywords, processed_items, now, log, tasks, article, pipelineOff >>

\* is_recent, called with every entry the date fields allow
DateStrings == {Absent, EmptyStr, Unparsable} \cup (0 .. Time0 + 1)
TzOffsets   == {0 - 1, 0, 1}

InitRecency ==
  /\ call \in { [fn |-> "is_recent", done |-> FALSE,
                  entry |-> [Entry("u1", p, {}, "none") EXCEPT !.updated = u, !.tz = z],
                  clock |-> c, days_back |-> d] :
                p \in DateStrings, u \in DateStrings,
                z \in {NoTz} \cup { {o} : o \in TzOffsets },
                c \in Time0 .. Time0 + 1, d \in 0 .. DaysBack }
  /\ ret = NoRet
  /\ AllOff

ApplyIsRecent ==
  /\ call.fn = "is_recent"
  /\ ~ call.done
  /\ ret' = is_recent(call.entry, call.clock, call.days_back)
  /\ call' = [call EXCEPT !.done = TRUE]
  /\ UNCHANGED allOff

SpecRecency == InitRecency /\ [][ApplyIsRecent]_vars

\* contains_keywords, called with every short haystack over a small
\* alphabet, and with the haystack and the keywords of the documentation
Alphabet    == {"a", "A", "b"}
KeywordPool == { <<>>, <<"a">>, <<"A", "b">>, <<"b", "a">> }
ExampleHaystack ==
  << "D", "a", "t", "a", " ", "P", "r", "o", "t", "e", "c", "t", "i",
     "o", "n", " ", "A", "u", "t", "h", "o", "r", "i", "t", "y", " ",
     "f", "i", "n", "e", "s", " ", "A", "c", "m", "e", " ", "C", "o",
     "r", "p", " ", "$", "5", "M" >>
ExampleKeywords ==
  << << "d", "a", "t", "a", " ", "p", "r", "o", "t", "e", "c", "t", "i",
   "o", "n" >>,
     << "f", "i", "n", "e" >> >>

InitKeywords ==
  /\ call \in { [fn |-> "contains_keywords", done |-> FALSE, text |-> t, kws |-> k] :
                t \in SeqsUpTo(Alphabet, MaxText), k \in SeqsUpTo(KeywordPool, MaxKeywords) }
           \cup { [fn |-> "contains_keywords", done |-> FALSE, text |-> ExampleHaystack, kws |-> k] :
                  k \in { ExampleKeywords, <<>>, << ExampleKeywords[2], <<"g", "d", "p", "r">>,
                                                    ExampleKeywords[1] >> } }
  /\ ret = NoRet
  /\ AllOff

ApplyContainsKeywords ==
  /\ call.fn = "contains_keywords"
  /\ ~ call.done
  /\ ret' = contains_keywords_str(call.text, call.kws)
  /\ call' = [call EXCEPT !.done = TRUE]
  /\ UNCHANGED allOff

SpecKeywords == InitKeywords /\ [][ApplyContainsKeywords]_vars

\* generate_summary, called with short contents of every make and with
\* long contents of long sentences
TextPool ==
  { [len |-> l, words |-> w] : l \in {MinSentence, MinSentence + 1}, w \in {{}, {"gdpr"}} }
    \cup { NoText }
LongPool == { [len |-> MinSentence + 1, words |-> w] : w \in {{}, {"gdpr"}} }

\* The stretches of text, a run between each two, a run before and after
Content(lead, texts, trail) ==
  IF texts = <<>>
  THEN IF lead \/ trail THEN << Term >> ELSE <<>>
  ELSE (IF lead THEN << Term >> ELSE <<>>)
         \o [i \in 1 .. 2 * Len(texts) - 1 |->
               IF i % 2 = 1 THEN texts[(i + 1) \div 2] ELSE Term]
         \o (IF trail THEN << Term >> ELSE <<>>)

InitSummary ==
  /\ call \in { [fn |-> "generate_summary", done |-> FALSE,
                  content |-> Content(lead, texts, trail), kws |-> k] :
                lead \in BOOLEAN, trail \in BOOLEAN,
                texts \in SeqsUpTo(TextPool, MaxSentences)
                          \cup [1 .. MaxRelevant -> LongPool]
                          \cup [1 .. MaxRelevant + 1 -> LongPool],
                k \in { <<>>, <<"GDPR">>, <<"fine", "GDPR">> } }
  /\ ret = NoRet
  /\ AllOff

ApplyGenerateSummary ==
  /\ call.fn = "generate_summary"
  /\ ~ call.done
  /\ ret' = generate_summary(call.content, call.kws)
  /\ call' = [call EXCEPT !.done = TRUE]
  /\ UNCHANGED allOff

SpecSummary == InitSummary /\ [][ApplyGenerateSummary]_vars

\* extract_entities, called with every short text over a few words, with
\* texts that name more than EntityLimit entities of a kind, and with the
\* sentence of the documentation
WordPool ==
  { << "$", "5" >>,
    << "$", "5", "M" >>,
    << "F", "B", "I" >>,
    << "A", "c", "m", "e" >>,
    << "C", "o", "r", "p" >>,
    << "O", "f", "f", "i", "c", "e", " ", "o", "f", " ", "B", "u", "d", "g", "e", "t" >> }
ManyAgencies ==
  << "F", "B", "I", " ", "a", "n", "d", " ", "C", "I", "A", ",", " ", "N",
     "S", "A", ",", " ", "D", "H", "S", ",", " ", "I", "C", "E", ",", " ",
     "C", "B", "P", ",", " ", "t", "h", "e", " ", "F", "B", "I", " ", "a",
     "n", "d", " ", "t", "h", "e", " ", "P", "e", "n", "t", "a", "g", "o",
     "n" >>
ManyAmounts ==
  << "$", "1", " ", "$", "2", " ", "$", "3", " ", "$", "4", " ", "$", "1",
     " ", "$", "6", " ", "$", "7" >>
ManyCompanies ==
  << "A", "c", "m", "e", " ", "C", "o", "r", "p", ",", " ", "B", "o", "l",
     "t", " ", "I", "n", "c", ",", " ", "A", "c", "m", "e", " ", "C", "o",
     "r", "p", ",", " ", "C", "o", "l", "e", " ", "L", "L", "C", ",", " ",
     "D", "u", "n", "e", " ", "L", "t", "d", ",", " ", "E", "l", "m", " ",
     "G", "m", "b", "H", ",", " ", "F", "o", "x", " ", "S", "y", "s", "t",
     "e", "m", "s" >>
ExampleText ==
  << "A", "c", "m", "e", " ", "T", "e", "c", "h", "n", "o", "l", "o", "g",
     "i", "e", "s", " ", "w", "a", "s", " ", "f", "i", "n", "e", "d", " ",
     "$", "1", ".", "5", " ", "m", "i", "l", "l", "i", "o", "n", " ", "b",
     "y", " ", "t", "h", "e", " ", "D", "e", "p", "a", "r", "t", "m", "e",
     "n", "t", " ", "o", "f", " ", "J", "u", "s", "t", "i", "c", "e" >>

InitEntities ==
  /\ call \in { [fn |-> "extract_entities", done |-> FALSE, text |-> join(w)] :
                w \in SeqsUpTo(WordPool, MaxWords) }
           \cup { [fn |-> "extract_entities", done |-> FALSE, text |-> t] :
                  t \in { ManyAgencies, ManyAmounts, ManyCompanies, ExampleText } }
  /\ ret = NoRet
  /\ AllOff

ApplyExtractEntities ==
  /\ call.fn = "extract_entities"
  /\ ~ call.done
  /\ ret' \in extract_entities(call.text)
  /\ call' = [call EXCEPT !.done = TRUE]
  /\ UNCHANGED allOff

SpecEntities == InitEntities /\ [][ApplyExtractEntities]_vars

\* parse_opml, called with every catalog of up to MaxOutlines outlines
OutlinePool ==
  UNION { [A -> {"", "x"}] : A \in SUBSET {"title", "xmlUrl"} }
    \cup { [title |-> "News", xmlUrl |-> "http://a"], [xmlUrl |-> "http://b"],
           [title |-> "Blog", text |-> "Blog"] }

InitOpml ==
  /\ call \in { [fn |-> "parse_opml", done |-> FALSE, file |-> OpmlFile(k, o)] :
                k \in {"none", "missing", "unreadable", "malformed", "ok"},
                o \in SeqsUpTo(OutlinePool, MaxOutlines) }
  /\ ret = NoRet
  /\ AllOff

ApplyParseOpml ==
  /\ call.fn = "parse_opml"
  /\ ~ call.done
  /\ ret' = parse_opml(call.file)
  /\ call' = [call EXCEPT !.done = TRUE]
  /\ UNCHANGED allOff

SpecOpml == InitOpml /\ [][ApplyParseOpml]_vars

\* parse_opml, called with the texts of catalogs whose attribute values are
\* written of a few pieces: letters, bare ampersands, references
ChunkPool == { << "a" >>, << "&" >>, << "&", "a", "m", "p", ";" >>, << "&", "#", "3", "8", ";" >>, << "&", "l", "t", ";" >>, << "=", "b" >> }
RECURSIVE Flatten(_)
Flatten(chunks) == IF chunks = <<>> THEN <<>> ELSE Head(chunks) \o Flatten(Tail(chunks))
ValuePool == { Flatten(c) : c \in SeqsUpTo(ChunkPool, MaxChunks) }

InitRepair ==
  /\ call \in { [fn |-> "parse_opml_text", done |-> FALSE, outlines |-> o] :
                o \in { << [xmlUrl |-> v] >> : v \in ValuePool }
                   \cup { << [title |-> << "R", "&", "D" >>, xmlUrl |-> v] >> : v \in ValuePool }
                   \cup { << [title |-> v, xmlUrl |-> << "h", "t", "t", "p", ":", "/", "/", "a" >>],
                             [xmlUrl |-> v] >> : v \in ValuePool } }
  /\ ret = NoRet
  /\ AllOff

ApplyParseOpmlText ==
  /\ call.fn = "parse_opml_text"
  /\ ~ call.done
  /\ ret' = parse_opml_text(call.outlines)
  /\ call' = [call EXCEPT !.done = TRUE]
  /\ UNCHANGED allOff

SpecRepair == InitRepair /\ [][ApplyParseOpmlText]_vars

\* generate_intelligence_report, called with the results of a run: items in
\* the order of their acceptance, each with the date string of its entry
\* (line 447) and, as at, the instant that string denotes (Absent for '')
DatePool ==
  { [date |-> << "W", "e", "d", ",", " ", "0", "1", " ", "J", "a", "n", " ", "2", "0", "2", "5" >>, at |-> 1],
    [date |-> << "M", "o", "n", ",", " ", "0", "6", " ", "J", "a", "n", " ", "2", "0", "2", "5" >>, at |-> 6],
    [date |-> << "2", "0", "2", "5", "-", "0", "1", "-", "0", "9" >>, at |-> 9],
    [date |-> << "2", "0", "2", "5", "-", "0", "1", "-", "0", "6" >>, at |-> 6],
    [date |-> <<>>, at |-> Absent] }

InitReport ==
  /\ call \in { [fn |-> "generate_intelligence_report", done |-> FALSE, results |-> r] :
                r \in SeqsUpTo(DatePool, MaxItems) }
  /\ ret = NoRet
  /\ AllOff

ApplyReport ==
  /\ call.fn = "generate_intelligence_report"
  /\ ~ call.done
  /\ ret' = report_items(call.results)
  /\ call' = [call EXCEPT !.done = TRUE]
  /\ UNCHANGED allOff

SpecReport == InitReport /\ [][ApplyReport]_vars

\* ------------------------------------------------- the command line
\* The value argparse gives an option that takes one: that of its last
\* occurrence in argv under any of its names, or the default (lines 872-875)
RECURSIVE option_value(_, _, _, _)
option_value(argv, names, default, p) ==
  IF p > Len(argv) THEN default
  ELSE IF argv[p] \in names /\ p < Len(argv)
  THEN option_value(argv, names, argv[p + 1], p + 2)
  ELSE option_value(argv, names, default, p + 1)

\* int() of type=int (line 875), on the numerals the command lines use
int(s) == CHOOSE n \in 0 .. 9 : ToString(n) = s

\* parser.parse_args() (lines 872-879)
parse_args(argv) ==
  [keywords   |-> option_value(argv, {"--keywords", "-k"}, "keywords.txt", 1),
   feeds      |-> option_value(argv, {"--feeds", "-f"}, "Reader_Feeds.opml", 1),
   output_dir |-> option_value(argv, {"--output-dir", "-o"}, "output", 1),
   days_back  |-> int(option_value(argv, {"--days-back", "-d"}, "3", 1)),
   gov        |-> "--gov" \in Range(argv),
   reset      |-> "--reset" \in Range(argv)]

\* main, lines 880-892: the file the keywords are read from and the
\* arguments the processor is constructed with
main_files(argv) ==
  LET args == parse_args(argv)
  IN  [keywords_file |-> "keywords.txt",                      \* line 883
       opml_file     |-> "Reader_Feeds.opml",                 \* line 888
       output_dir    |-> args.output_dir,                     \* line 889
       days_back     |-> args.days_back,                      \* line 891
       reset         |-> args.reset]                          \* line 895

\* Command lines: each option left out, or given under one of its names
ArgvPool ==
  { k \o f \o o \o d \o r :
      k \in { <<>>, <<"-k", "keywords.txt">>, <<"-k", "mine.txt">>,
               <<"--keywords", "other.txt">> },
      f \in { <<>>, <<"-f", "Reader_Feeds.opml">>, <<"-f", "mine.opml">>,
               <<"--feeds", "other.opml">> },
      o \in { <<>>, <<"-o", "out">> },
      d \in { <<>>, <<"-d", "7">>, <<"--days-back", "1">> },
      r \in { <<>>, <<"--reset">> } }

InitArgs ==
  /\ call \in { [fn |-> "main", done |-> FALSE, argv |-> a] : a \in ArgvPool }
  /\ ret = NoRet
  /\ AllOff

ApplyMainFiles ==
  /\ call.fn = "main"
  /\ ~ call.done
  /\ ret' = main_files(call.argv)
  /\ call' = [call EXCEPT !.done = TRUE]
  /\ UNCHANGED allOff

SpecArgs == InitArgs /\ [][ApplyMainFiles]_vars

\* ------------------------------------------- article_processor.py
\* The default of max_retries (line 115)
MaxRetries == 5

\* [a-zA-Z0-9_-] of tag_pattern (line 199)
TagChars == UpperSet \cup LowerSet \cup Digits \cup {"_", "-"}

\* re.findall(r'#([a-zA-Z0-9_-]+)', summary) from position p on (line 200)
RECURSIVE findall_tags(_, _)
findall_tags(summary, p) ==
  IF p > Len(summary) THEN <<>>
  ELSE IF summary[p] = "#" /\ At(summary, p + 1) \in TagChars
  THEN LET e == SpanEnd(summary, p + 1, TagChars)
       IN  << SubSeq(summary, p + 1, e - 1) >> \o findall_tags(summary, e)
  ELSE findall_tags(summary, p + 1)

\* extract_tags_from_summary (lines 191-205): list(set(tags)) holds no tag
\* twice, in an order the code leaves open: the set of its elements
extract_tags_from_summary(summary) ==
  { lower(t) : t \in Range(findall_tags(summary, 1)) }

\* The record summarize_with_claude returns
Result(summary, tags, raw) == [summary |-> summary, tags |-> tags, raw_response |-> raw]

NoData == Result(<<>>, {}, <<>>)

\* f"Rate limit exceeded after {max_retries} retries" (line 171)
RateLimitMessage(max_retries) ==
  << "R", "a", "t", "e", " ", "l", "i", "m", "i", "t", " ", "e", "x", "c", "e", "e", "d", "e", "d", " ", "a", "f", "t", "e", "r", " " >> \o << ToString(max_retries) >> \o << " ", "r", "e", "t", "r", "i", "e", "s" >>

\* f"Error generating summary: {e}" (line 179)
ErrorMessage(e) ==
  << "E", "r", "r", "o", "r", " ", "g", "e", "n", "e", "r", "a", "t", "i", "n", "g", " ", "s", "u", "m", "m", "a", "r", "y", ":", " " >> \o e

\* "Error: Max retries exceeded" (line 186)
MaxRetriesMessage ==
  << "E", "r", "r", "o", "r", ":", " ", "M", "a", "x", " ", "r", "e", "t", "r", "i", "e", "s", " ", "e", "x", "c", "e", "e", "d", "e", "d" >>

\* A backoff that grows by two seconds an attempt
wait_time_linear(attempt) == (attempt + 1) * 2

\* wait_time = (2 ** attempt) * 2 (line 164)
wait_time(attempt) == (2 ^ attempt) * 2

\* What self.client.messages.create does (lines 141-151): it returns a
\* message with a text, or raises anthropic.RateLimitError, or raises
\* something else, with a message of its own
ResponsePool ==
  { <<>>, << "o", "k" >>, << "#", "A", "I" >>,
    << "a", " ", "#", "b", "-", "1", " ", "#", "B", "-", "1" >> }

ExceptionPool == { << "5", "2", "9" >> }

ApiOutcomes ==
  { [kind |-> "ok", text |-> r] : r \in ResponsePool }
    \cup { [kind |-> "rate_limit", text |-> <<>>] }
    \cup { [kind |-> "error", text |-> e] : e \in ExceptionPool }

\* What fetch_article_content returns (lines 74-113): None, here <<>>, or
\* the text of the article
ContentPool == { <<>>, << "b", "o", "d", "y" >> }

ExampleItem ==
  [title |-> << "T" >>, url |-> << "u" >>, keywords |-> { << "a", "i" >> }]

\* create_obsidian_note (lines 207-258), the parts of the note that vary
create_obsidian_note(item, summary_data, content) ==
  [title |-> item.title, source |-> item.url,
   tags |-> item.keywords \cup summary_data.tags,
   summary |-> summary_data.summary, content |-> content]

\* The activation of process_single_article or of summarize_with_claude:
\* pc is where it stands, attempt the loop variable of line 138, data the
\* record the summarization returned; calls (calls of the API made), limited
\* (those that raised RateLimitError), last (how the last one ended) and
\* waits (the seconds slept, in order) are the history of the activation
Activation(fn, at, max_retries, content) ==
  [fn |-> fn, done |-> FALSE, pc |-> at, item |-> ExampleItem, content |-> content,
   max_retries |-> max_retries, attempt |-> 0, data |-> NoData,
   calls |-> 0, limited |-> 0, last |-> "none", waits |-> <<>>]

InitArticle ==
  /\ call \in { Activation("process_single_article", "fetch", MaxRetries, <<>>) }
       \cup { Activation("summarize_with_claude", "attempt", n, c) :
                n \in 0 .. MaxRetriesArg, c \in ContentPool \ { <<>> } }
  /\ ret = NoRet
  /\ AllOff

articleFrame == << upstream, keywords, processed_items, now, log, tasks, pipelineOff >>

Returned(value) == [raised |-> FALSE, value |-> value]
Raised == [raised |-> TRUE, value |-> FALSE]

\* f"Failed to fetch: {title}" (line 302), without the title
FailedToFetch ==
  << "F", "a", "i", "l", "e", "d", " ", "t", "o", " ", "f", "e", "t", "c", "h", ":", " " >>

\* process_single_article, lines 289-305: the content is fetched
FetchContent ==
  /\ call.fn = "process_single_article"
  /\ call.pc = "fetch"
  /\ \E content \in ContentPool :
       IF content = <<>>
       THEN /\ article' = [article EXCEPT !.stats.failed = @ + 1,
                                          !.stats.errors =
                                             Append(@, FailedToFetch \o call.item.title)]
            /\ ret' = Returned(FALSE)
            /\ call' = [call EXCEPT !.done = TRUE, !.pc = "end"]
       ELSE /\ article' = [article EXCEPT !.stats.fetched = @ + 1]
            /\ call' = [call EXCEPT !.content = content, !.pc = "attempt"]
            /\ UNCHANGED ret
  /\ UNCHANGED articleFrame

\* summarize_with_claude, lines 138-182: one attempt of the loop
ApiCall ==
  /\ call.fn \in {"process_single_article", "summarize_with_claude"}
  /\ call.pc = "attempt"
  /\ call.attempt < call.max_retries
  /\ \E o \in ApiOutcomes :
       call' =
         IF o.kind = "ok"
         THEN [call EXCEPT !.calls = @ + 1, !.last = "ok", !.pc = "summarized",
                           !.data = Result(o.text, extract_tags_from_summary(o.text), o.text)]
         ELSE IF o.kind = "rate_limit"
         THEN IF call.attempt < call.max_retries - 1
              THEN [call EXCEPT !.calls = @ + 1, !.limited = @ + 1,
                                !.last = "rate_limit", !.pc = "sleep"]
              ELSE [call EXCEPT !.calls = @ + 1, !.limited = @ + 1,
                                !.last = "rate_limit", !.pc = "summarized",
                                !.data = Result(RateLimitMessage(call.max_retries), {}, <<>>)]
         ELSE [call EXCEPT !.calls = @ + 1, !.last = "error", !.pc = "summarized",
                           !.data = Result(ErrorMessage(o.text), {}, <<>>)]
  /\ UNCHANGED << ret, article, articleFrame >>

\* lines 165-167: time.sleep(wait_time), then the next attempt
Backoff ==
  /\ call.fn \in {"process_single_article", "summarize_with_claude"}
  /\ call.pc = "sleep"
  /\ call' = [call EXCEPT !.waits = Append(@, wait_time(call.attempt)),
                          !.attempt = @ + 1, !.pc = "attempt"]
  /\ UNCHANGED << ret, article, articleFrame >>

\* lines 184-189: the loop ended without a return
LoopExhausted ==
  /\ call.fn \in {"process_single_article", "summarize_with_claude"}
  /\ call.pc = "attempt"
  /\ call.attempt >= call.max_retries
  /\ call' = [call EXCEPT !.pc = "summarized", !.data = Result(MaxRetriesMessage, {}, <<>>)]
  /\ UNCHANGED << ret, article, articleFrame >>

\* summarize_with_claude called on its own returns its record
ReturnSummary ==
  /\ call.fn = "summarize_with_claude"
  /\ call.pc = "summarized"
  /\ ret' = call.data
  /\ call' = [call EXCEPT !.done = TRUE, !.pc = "end"]
  /\ UNCHANGED << article, articleFrame >>

\* process_single_article, lines 310-320: the test of the summary
CheckSummary ==
  /\ call.fn = "process_single_article"
  /\ call.pc = "summarized"
  /\ IF call.data.summary = <<>>
     THEN /\ article' = [article EXCEPT !.stats.failed = @ + 1]
          /\ ret' = Returned(FALSE)
          /\ call' = [call EXCEPT !.done = TRUE, !.pc = "end"]
     ELSE /\ article' = [article EXCEPT !.stats.summarized = @ + 1]
          /\ call' = [call EXCEPT !.pc = "note"]
          /\ UNCHANGED ret
  /\ UNCHANGED articleFrame

\* process_single_article, lines 323-340: the note is written, unless
\* os.makedirs, open or write raise, and then the exception leaves the call
WriteNote ==
  /\ call.fn = "process_single_article"
  /\ call.pc = "note"
  /\ \E ok \in BOOLEAN :
       IF ok
       THEN /\ article' =
                 [article EXCEPT !.stats.created = @ + 1,
                                 !.notes = @ \cup {create_obsidian_note(call.item, call.data,
                                                                        call.content)}]
            /\ ret' = Returned(TRUE)
       ELSE /\ ret' = Raised
            /\ UNCHANGED article
  /\ call' = [call EXCEPT !.done = TRUE, !.pc = "end"]
  /\ UNCHANGED articleFrame

NextArticle ==
  \/ FetchContent
  \/ ApiCall
  \/ Backoff
  \/ LoopExhausted
  \/ ReturnSummary
  \/ CheckSummary
  \/ WriteNote

SpecArticle == InitArticle /\ [][NextArticle]_vars

\* The interpreter runs the call on: the call of the API returns or raises
\* and time.sleep returns
SpecArticleFair == SpecArticle /\ WF_vars(NextArticle)

\* ------------------------------------------------- the event loop's tasks
\* NumTasks coroutines of process_rss_feeds run on one event loop over the
\* same processor object: they share self.processed_items, each has its
\* own items list and loop indices.  The loop is cooperative: the running
\* coroutine keeps the loop until it awaits or returns.
Tasks == 1 .. NumTasks

NewTask == [pc |-> "feed", fi |-> 1, ei |-> 0, items |-> <<>>]

InitTasks ==
  /\ upstream \in [Feeds -> SeqsUpTo(LifePool, MaxEntries)]
  /\ keywords \in KeywordFiles
  /\ processed_items = EmptyLedger
  /\ now = Time0
  /\ log = <<>>
  /\ tasks \in { [cur |-> t, st |-> [u \in Tasks |-> NewTask]] : t \in Tasks }
  /\ call = NoCall
  /\ ret = NoRet
  /\ article = NewArticleProcessor
  /\ PipelineOff

Cur == tasks.st[tasks.cur]
SetCur(r) == tasks' = [tasks EXCEPT !.st[tasks.cur] = r]
taskFrame == << pipelineOff, upstream, keywords, now, call, ret, article >>

\* A coroutine that also awaits after the tests of an entry, before the
\* item is stored and the permalink marked
YieldsInsideEntry(p) == p \in {"sleep", "returned", "insert"}

\* Where a coroutine gives the loop away: await asyncio.sleep(1) (line 458)
\* and its return (line 463)
Yields(p) == p \in {"sleep", "returned"}

\* lines 410-412
TaskFetch ==
  /\ Cur.pc = "feed"
  /\ Cur.fi <= NumFeeds
  /\ \E raises \in BOOLEAN :
       IF raises
       THEN SetCur([Cur EXCEPT !.fi = AfterRaise(Cur.fi)])
       ELSE SetCur([Cur EXCEPT !.ei = 1, !.pc = "lookup"])
  /\ UNCHANGED << taskFrame, processed_items, log >>

\* lines 416-437: the ledger lookup, the recency test, the extraction and
\* the keyword test of one entry
TaskLookup ==
  /\ Cur.pc = "lookup"
  /\ Cur.ei <= Len(Examined(Cur.fi))
  /\ LET e == Examined(Cur.fi)[Cur.ei]
         v == Verdict(e, processed_items, now, keywords)
     IN  /\ log' = Append(log, [task |-> tasks.cur, feed |-> Cur.fi, idx |-> Cur.ei,
                                entry |-> e, outcome |-> v])
         /\ IF v = "accepted"
            THEN SetCur([Cur EXCEPT !.pc = "insert"])
            ELSE IF v = "raised"
            THEN SetCur([Cur EXCEPT !.fi = AfterRaise(Cur.fi), !.ei = 0, !.pc = "feed"])
            ELSE SetCur([Cur EXCEPT !.ei = Cur.ei + 1])
  /\ UNCHANGED << taskFrame, processed_items >>

\* lines 441-455: the item is stored and the permalink marked
TaskInsert ==
  /\ Cur.pc = "insert"
  /\ LET e == Examined(Cur.fi)[Cur.ei]
     IN  /\ SetCur([Cur EXCEPT !.items = Append(Cur.items, Item(e, Cur.fi, keywords)),
                               !.ei = Cur.ei + 1, !.pc = "lookup"])
         /\ processed_items' = Insert(processed_items, e.link, now)
  /\ UNCHANGED << taskFrame, log >>

\* line 458: await asyncio.sleep(1)
TaskSleep ==
  /\ Cur.pc = "lookup"
  /\ Cur.ei > Len(Examined(Cur.fi))
  /\ SetCur([Cur EXCEPT !.pc = "sleep"])
  /\ UNCHANGED << taskFrame, processed_items, log >>

\* line 463
TaskReturn ==
  /\ Cur.pc = "feed"
  /\ Cur.fi > NumFeeds
  /\ SetCur([Cur EXCEPT !.pc = "returned"])
  /\ UNCHANGED << taskFrame, processed_items, log >>

\* The event loop resumes a coroutine, once the running one gave it away;
\* a coroutine that slept goes on with its next feed
Resume ==
  /\ Yields(Cur.pc)
  /\ \E t \in Tasks :
       /\ tasks.st[t].pc # "returned"
       /\ tasks' = [cur |-> t,
                    st |-> IF tasks.st[t].pc = "sleep"
                           THEN [tasks.st EXCEPT ![t] = [@ EXCEPT !.pc = "feed",
                                                                   !.fi = @ + 1,
                                                                   !.ei = 0]]
                           ELSE tasks.st]
  /\ UNCHANGED << taskFrame, processed_items, log >>

NextTasks ==
  \/ TaskFetch
  \/ TaskLookup
  \/ TaskInsert
  \/ TaskSleep
  \/ TaskReturn
  \/ Resume

SpecTasks == InitTasks /\ [][NextTasks]_vars

\* ================================================================ claims

\* The three tests of the claims, stated on the entry itself
HasDate(e)  == (IF e.published # Absent THEN e.published ELSE e.updated) >= 0
DateOf(e)   == IF e.published # Absent THEN e.published ELSE e.updated
InWindow(e) == HasDate(e) => DateOf(e) >= now - DaysBack
Matches(e)  == keywords = <<>> \/ \E k \in 1 .. Len(keywords) : Lower[keywords[k]] \in e.text
Ledgered(r) == r.entry.link = NoLink \/ r.known
LogRecords  == { log[k] : k \in 1 .. Len(log) }
IsAccepted(r) == r.outcome = "accepted"
AcceptedLog == SelectSeq(log, IsAccepted)

\* C1: once an identifier was accepted, every later appearance of it is
\* skipped as a duplicate, so without a reset no identifier occurs in the
\* reported batches of two processes (or twice in one batch).
C1_NoIdTwice ==
  ~ resetUsed =>
     /\ \A i \in Ids : batches[i] <= 1
     /\ \A j, k \in 1 .. Len(items) : items[j].id = items[k].id => j = k

\* C2 as claimed: a process that loads the ledger file the previous
\* process wrote, with the same catalog, keywords and upstream entries,
\* returns no item.
C2_SecondRunEmpty ==
  (pc = "returned" /\ prev.done /\ prev.wrote) => items = <<>>

\* C2 as amended: such a process returns no item from a feed that the
\* previous process fetched and evaluated to its end; it returns no item at
\* all when no feed failed in the previous process.
C2_SecondRunOnlyFailedFeeds ==
  (pc = "returned" /\ prev.done /\ prev.wrote)
     => /\ \A k \in 1 .. Len(items) : items[k].source \in prev.failed
        /\ prev.failed = {} => items = <<>>

C2_Witness ==
  /\ pc = "returned" /\ prev.done /\ prev.wrote
  /\ prev.failed = {}
  /\ prev.size > 0
  /\ \E r \in LogRecords : r.known /\ InWindow(r.entry) /\ Matches(r.entry)
  /\ items = <<>>

\* C3: the items of the batch are, in order, the entries the loop accepted,
\* and each of them had, when it was evaluated, a non-empty link that was
\* not in the ledger, passed the recency test (in the window or without a
\* usable date) and matched a keyword (or the keyword list was empty); no
\* ledgered, stale or non-matching entry is accepted.
C3_AcceptanceInvariant ==
  /\ Len(items) = Len(AcceptedLog)
  /\ \A k \in 1 .. Len(items) :
       /\ items[k].id = AcceptedLog[k].entry.link
       /\ items[k].source = AcceptedLog[k].feed
  /\ \A r \in LogRecords :
       IsAccepted(r) => /\ r.entry.link # NoLink
                        /\ ~ r.known
                        /\ InWindow(r.entry)
                        /\ Matches(r.entry)

C3_Witness ==
  /\ keywords # <<>>
  /\ Len(items) >= 1
  /\ \E r \in LogRecords : r.outcome = "rejected"
  /\ \E r \in LogRecords : r.outcome = "stale"
  /\ \E r \in LogRecords : r.outcome = "duplicate"

C6_ResetStartsEmpty ==
  (reset /\ pc \in {"opml", "feed", "entries", "sleep", "save", "dump", "returned", "done"})
     => /\ DOMAIN processed_items = ItemIds(items)
        /\ (pc = "done" /\ wrote) => DOMAIN disk.data = ItemIds(items)

\* C7: when process_all_sources has returned, the ledger file holds the
\* in-memory ledger.
C7_PersistedAtReturn ==
  pc = "returned" => disk = Stored(processed_items)

\* C8: after an interrupted process (not started with --reset) the ledger
\* file is the file as it was before the process, or the complete ledger
\* the process had in memory.
C8_AllOrNothing ==
  (pc = "aborted" /\ ~ reset) => (disk = disk0 \/ disk = Stored(lastLedger))

\* What the loops of process_rss_feeds make of the entry lists ups, served
\* by feeds none of which raises, starting from ledger0
RECURSIVE FoldFeed(_, _, _, _)
FoldFeed(es, src, k, acc) ==
  IF k > Len(es) THEN acc
  ELSE LET v == Verdict(es[k], acc.ledger, now, keywords)
       IN  IF v = "accepted"
           THEN FoldFeed(es, src, k + 1,
                         [ledger |-> Insert(acc.ledger, es[k].link, now),
                          items  |-> Append(acc.items, Item(es[k], src, keywords))])
           ELSE IF v = "raised" THEN acc
           ELSE FoldFeed(es, src, k + 1, acc)

RECURSIVE FoldFeeds(_, _, _)
FoldFeeds(ups, f, acc) ==
  IF f > NumFeeds THEN acc
  ELSE FoldFeeds(ups, f + 1, FoldFeed(ups[f], f, 1, acc))

BatchOf(ups) == FoldFeeds(ups, 1, [ledger |-> ledger0, items |-> <<>>])

FailedFeeds == fetchFailed \cup {f \in Feeds : raisedAt[f] > 0}

\* The upstream with the feeds that raised serving nothing
WithoutFailed == [f \in Feeds |-> IF f \in FailedFeeds THEN <<>> ELSE Examined(f)]

\* The upstream with a feed that raised ending just before the entry that raised
CutAtFailure ==
  [f \in Feeds |-> IF f \in fetchFailed THEN <<>>
                   ELSE IF raisedAt[f] > 0 THEN SubSeq(Examined(f), 1, raisedAt[f] - 1)
                   ELSE Examined(f)]

\* C9 as claimed: a feed whose fetch, parse or evaluation raised counts as
\* an empty entry list (no item, no ledger entry), and the batch is what
\* the other feeds would have produced without it.
C9_FailedFeedIsEmpty ==
  pc = "save" => /\ items = BatchOf(WithoutFailed).items
                 /\ processed_items = BatchOf(WithoutFailed).ledger

\* C9 as amended: a feed whose fetch raised contributes nothing; a feed
\* whose evaluation raised at an entry contributes the items and ledger
\* entries of the entries accepted before that entry, and nothing after it;
\* every other feed is still processed: the batch is what the catalog would
\* have produced had each failing feed ended just before its failing entry.
C9_FailedFeedIsCut ==
  pc = "save" => /\ items = BatchOf(CutAtFailure).items
                 /\ processed_items = BatchOf(CutAtFailure).ledger

C9_Witness ==
  /\ pc = "save"
  /\ \E f, g \in Feeds :
       /\ f < g
       /\ raisedAt[f] > 1
       /\ \E k \in 1 .. Len(items) : items[k].source = f
       /\ \E k \in 1 .. Len(items) : items[k].source = g

\* C10: load_history never raises; it returns the empty mapping when the
\* file is missing or cannot be read, and otherwise the mapping in the file,
\* which is the one save_history last wrote.
C10_LoadNeverFails ==
  /\ pc = "crashed" => ~ keywords_txt.exists
  /\ pc = "reset" =>
       /\ disk0.kind \in {"missing", "corrupt"} => processed_items = EmptyLedger
       /\ disk0.kind = "ok" => processed_items = disk0.data
       /\ (prev.done /\ prev.wrote) => processed_items = prev.ledger

C10_Witness ==
  /\ pc = "reset"
  /\ disk0.kind = "corrupt"
  /\ processed_items = EmptyLedger

\* C11: of each feed only the first EntryLimit entries are examined, one
\* after the other in the order the feed serves them; an entry served at a
\* later position is never evaluated, and its permalink comes neither into
\* the batch nor into the ledger (unless an examined entry has the same).
LateLinks(f) ==
  { upstream[f][i].link : i \in EntryLimit + 1 .. Len(upstream[f]) }
     \ { upstream[f][i].link : i \in 1 .. Len(Examined(f)) }

C11_OnlyFirstFifty ==
  /\ \A k \in 1 .. Len(log) :
        /\ log[k].idx <= EntryLimit
        /\ log[k].idx <= Len(upstream[log[k].feed])
        /\ log[k].entry = upstream[log[k].feed][log[k].idx]
        /\ IF k > 1 /\ log[k - 1].feed = log[k].feed
           THEN log[k].idx = log[k - 1].idx + 1
           ELSE log[k].idx = 1
  /\ \A l \in LateLinks(1) :
        /\ l \notin ItemIds(items)
        /\ l \notin DOMAIN processed_items

\* A feed of more than EntryLimit entries was evaluated to its limit, and
\* the batch holds the entry served at position EntryLimit - 1
C11_Witness ==
  /\ pc = "returned"
  /\ Len(upstream[1]) > EntryLimit
  /\ \E k \in 1 .. Len(log) : log[k].feed = 1 /\ log[k].idx = EntryLimit
  /\ upstream[1][EntryLimit - 1].link \in ItemIds(items)
  /\ LateLinks(1) # {}

\* C12: a coroutine that found a permalink absent from the ledger keeps the
\* event loop until it has marked it: the permalink is still absent when it
\* is marked, a coroutine that does not hold the loop stands at a feed
\* boundary (not started, asleep after a feed, returned), and no permalink
\* is accepted by two coroutines or twice by one.
AllItems == UNION { { [task |-> t, pos |-> i] : i \in 1 .. Len(tasks.st[t].items) } : t \in Tasks }
ItemAt(x) == tasks.st[x.task].items[x.pos]

C12_EntryEvaluationAtomic ==
  /\ \A t \in Tasks :
        tasks.st[t].pc = "insert" =>
          /\ t = tasks.cur
          /\ Examined(tasks.st[t].fi)[tasks.st[t].ei].link \notin DOMAIN processed_items
  /\ \A t \in Tasks \ {tasks.cur} :
        \/ tasks.st[t] = NewTask
        \/ tasks.st[t].pc \in {"sleep", "returned"}
  /\ \A x, y \in AllItems : ItemAt(x).id = ItemAt(y).id => x = y

\* Two coroutines have both accepted something, one of them after the
\* other had marked a permalink and given the loop away
C12_Witness ==
  /\ \A t \in Tasks : tasks.st[t].pc = "returned"
  /\ \E t, u \in Tasks : /\ t # u
                          /\ Len(tasks.st[t].items) > 0
                          /\ Len(tasks.st[u].items) > 0
  /\ \E j, k \in 1 .. Len(log) : /\ j < k
                                  /\ log[j].task # log[k].task
                                  /\ log[j].entry.link = log[k].entry.link
                                  /\ log[j].outcome = "accepted"
                                  /\ log[k].outcome = "duplicate"

\* C13: export_to_json, run on the ledger file a finished process wrote,
\* writes a document whose total_items is the number of ledger entries and
\* whose items hold, for each ledger entry, a record with title, url,
\* source, date and keywords.
C13_ExportListsLedger ==
  (call.fn = "export_to_json" /\ pc = "done" /\ wrote) =>
     /\ ret.written
     /\ ret.total_items = Cardinality(DOMAIN processed_items)
     /\ \A k \in DOMAIN processed_items :
           /\ k \in DOMAIN ret.items
           /\ {"title", "url", "source", "date", "keywords"} \subseteq DOMAIN ret.items[k]

\* The date string is_recent reads, and whether it parses
DateField(e) == IF e.published # Absent THEN e.published ELSE e.updated
Parses(e)    == DateField(e) >= 0
\* The instant it denotes: its wall-clock reading less its UTC offset, the
\* offset of a string without one being 0
UtcInstant(e) == DateField(e) - (IF e.tz = NoTz THEN 0 ELSE CHOOSE o \in e.tz : TRUE)

\* C14: for an entry whose date string parses, is_recent is TRUE exactly
\* when its instant is at or after the clock less days_back: TRUE at the
\* cutoff itself, FALSE one time unit before it; a date string without
\* offset counts as UTC.
C14_RecencyBoundary ==
  (call.fn = "is_recent" /\ call.done /\ Parses(call.entry)) =>
     /\ ret = (UtcInstant(call.entry) >= call.clock - call.days_back)
     /\ UtcInstant(call.entry) = call.clock - call.days_back => ret = TRUE
     /\ UtcInstant(call.entry) = call.clock - call.days_back - 1 => ret = FALSE

\* An entry exactly at the cutoff only because of its offset was found recent
C14_Witness ==
  /\ call.fn = "is_recent"
  /\ call.done
  /\ Parses(call.entry)
  /\ call.entry.tz = {1}
  /\ call.entry.published = call.clock - call.days_back + 1
  /\ ret = TRUE

\* C15: is_recent returns (it raises nothing) and returns TRUE for an entry
\* without date field, with an empty one or with one that does not parse; it
\* returns FALSE only for a date string that parsed to an instant before
\* the cutoff.
C15_InclusiveByDefault ==
  (call.fn = "is_recent" /\ call.done) =>
     /\ ret \in BOOLEAN
     /\ ~ Parses(call.entry) => ret = TRUE
     /\ ret = FALSE => /\ Parses(call.entry)
                       /\ UtcInstant(call.entry) < call.clock - call.days_back

\* An entry whose published field does not parse was found recent, though
\* its updated field is older than the cutoff
C15_Witness ==
  /\ call.fn = "is_recent"
  /\ call.done
  /\ call.entry.published \in {Unparsable, EmptyStr}
  /\ call.entry.updated >= 0
  /\ call.entry.updated < call.clock - call.days_back - 1
  /\ ret = TRUE

\* The positions of the configured keywords whose lower-case form occurs in
\* the lower-case haystack, and the j-th of them
OccursAt(n, h, i) ==
  \A j \in 1 .. Len(n) : i + j - 1 <= Len(h) /\ LowerChar(h[i + j - 1]) = LowerChar(n[j])
Qualifying(kws, h) ==
  { i \in 1 .. Len(kws) : \E at \in 1 .. Len(h) + 1 : OccursAt(kws[i], h, at) }
NthOf(S, j) == CHOOSE i \in S : Cardinality({ x \in S : x < i }) = j - 1

\* C16: contains_keywords returns (TRUE, []) for an empty keyword list;
\* otherwise matched lists, in the configured order, exactly the keywords
\* whose lower-case form is a substring of the lower-case haystack, and the
\* flag is TRUE iff that list is not empty.  The documented haystack with
\* ["data protection", "fine"] yields both keywords.
C16_KeywordMatcher ==
  (call.fn = "contains_keywords" /\ call.done) =>
     /\ call.kws = <<>> => ret = [has |-> TRUE, matched |-> <<>>]
     /\ call.kws # <<>> =>
          LET Q == Qualifying(call.kws, call.text)
          IN  /\ Len(ret.matched) = Cardinality(Q)
              /\ \A j \in 1 .. Len(ret.matched) : ret.matched[j] = call.kws[NthOf(Q, j)]
              /\ ret.has = (Q # {})
     /\ (call.text = ExampleHaystack /\ call.kws = ExampleKeywords) =>
          ret = [has |-> TRUE, matched |-> ExampleKeywords]

\* The documented haystack was matched against three keywords of which the
\* second does not occur
C16_Witness ==
  /\ call.fn = "contains_keywords"
  /\ call.done
  /\ call.text = ExampleHaystack
  /\ Len(call.kws) = 3
  /\ ret = [has |-> TRUE, matched |-> << ExampleKeywords[2], ExampleKeywords[1] >>]

\* The sentences of a content, the positions of those that qualify and of
\* those that are not empty, and the first n positions of a set
SentencesOf(content) == re_split(content)
QualifyingAt(content, kws) ==
  { i \in 1 .. Len(SentencesOf(content)) :
      /\ SentencesOf(content)[i].len > MinSentence
      /\ \E k \in 1 .. Len(kws) : Lower[kws[k]] \in SentencesOf(content)[i].words }
NonEmptyAt(content) ==
  { i \in 1 .. Len(SentencesOf(content)) : SentencesOf(content)[i].len > 0 }
FirstOf(S, n) ==
  [j \in 1 .. (IF Cardinality(S) < n THEN Cardinality(S) ELSE n) |-> NthOf(S, j)]

\* C17 as claimed: the summary is made of the first at most MaxRelevant sentences
\* longer than MinSentence characters that hold a matched keyword, in their
\* order; if and only if there is none, of the first two non-empty
\* sentences of the content; the line naming the keywords is appended iff
\* the list of matched keywords is not empty.
C17_SummaryPolicy ==
  (call.fn = "generate_summary" /\ call.done) =>
     /\ ret.body = IF QualifyingAt(call.content, call.kws) # {}
                   THEN FirstOf(QualifyingAt(call.content, call.kws), MaxRelevant)
                   ELSE FirstOf(NonEmptyAt(call.content), FallbackCount)
     /\ (ret.tail # <<>>) = (call.kws # <<>>)

\* C17 as amended: if and only if no sentence qualifies, the summary is
\* made of the non-empty ones among the first two pieces that splitting the
\* content at the runs of . ! ? yields: of fewer than two sentences, or of
\* none, where the content starts with such a run or with white space
\* before one.  The rest is as claimed.
C17_SummaryPolicyAmended ==
  (call.fn = "generate_summary" /\ call.done) =>
     /\ ret.body = IF QualifyingAt(call.content, call.kws) # {}
                   THEN FirstOf(QualifyingAt(call.content, call.kws), MaxRelevant)
                   ELSE FirstOf(NonEmptyAt(call.content) \cap (1 .. FallbackCount),
                                FallbackCount)
     /\ (ret.tail # <<>>) = (call.kws # <<>>)

\* No sentence qualified and the content starts with a run of . ! ?: the
\* summary is one sentence, though the content has two that are not empty
C17_Witness ==
  /\ call.fn = "generate_summary"
  /\ call.done
  /\ QualifyingAt(call.content, call.kws) = {}
  /\ call.content # <<>>
  /\ call.content[1] = Term
  /\ Cardinality(NonEmptyAt(call.content)) >= 2
  /\ Len(ret.body) = 1
  /\ ret.tail # <<>>

\* C18: in what extract_entities returns, each of companies, agencies,
\* amounts and people holds no element twice and at most EntityLimit
\* elements, and people is empty.
NoRepeat(l) == \A i, j \in 1 .. Len(l) : l[i] = l[j] => i = j

C18_EntityBounds ==
  (call.fn = "extract_entities" /\ call.done) =>
     /\ \A l \in {ret.companies, ret.agencies, ret.amounts, ret.people} :
           NoRepeat(l) /\ Len(l) <= EntityLimit
     /\ ret.people = <<>>

\* A text that names an agency twice and more than EntityLimit agencies
\* came back with EntityLimit of them
C18_Witness ==
  /\ call.fn = "extract_entities"
  /\ call.done
  /\ call.text = ManyAgencies
  /\ Len(ret.agencies) = EntityLimit
  /\ << "F", "B", "I" >> \in Range(ret.agencies)

\* C19: for the documented sentence extract_entities returns the amounts
\* ["$1.5 million"], the agencies ["Department of Justice"] and companies
\* that hold "Acme Technologies".
C19_ExampleEntities ==
  (call.fn = "extract_entities" /\ call.done /\ call.text = ExampleText) =>
     /\ ret.amounts = << << "$", "1", ".", "5", " ", "m", "i", "l", "l", "i", "o", "n" >> >>
     /\ ret.agencies = << << "D", "e", "p", "a", "r", "t", "m", "e", "n", "t", " ", "o", "f", " ", "J", "u", "s", "t", "i", "c", "e" >> >>
     /\ << "A", "c", "m", "e", " ", "T", "e", "c", "h", "n", "o", "l", "o", "g", "i", "e", "s" >> \in Range(ret.companies)

\* The positions of the outlines that carry a non-empty xmlUrl
Listed(file) ==
  { i \in 1 .. Len(file.outlines) :
      "xmlUrl" \in DOMAIN file.outlines[i] /\ file.outlines[i]["xmlUrl"] # "" }

\* C20: parse_opml raises nothing; without file, with a file that cannot be
\* read or parsed, the feed list stays empty; otherwise it holds, in
\* document order, one feed per outline with a non-empty xmlUrl, with that
\* url and the outline's title ("Unnamed Feed" without title attribute),
\* and nothing for the other outlines.
C20_CatalogLoader ==
  (call.fn = "parse_opml" /\ call.done) =>
     /\ ~ ret.raised
     /\ call.file.kind # "ok" => ret.feeds = <<>>
     /\ call.file.kind = "ok" =>
          /\ Len(ret.feeds) = Cardinality(Listed(call.file))
          /\ \A j \in 1 .. Len(ret.feeds) :
                LET o == call.file.outlines[NthOf(Listed(call.file), j)]
                IN  /\ ret.feeds[j].url = o["xmlUrl"]
                    /\ ret.feeds[j].title =
                         (IF "title" \in DOMAIN o THEN o["title"] ELSE "Unnamed Feed")

\* A catalog of an outline without xmlUrl, one with an empty xmlUrl and one
\* with a url but no title gave the one feed, under the default title
C20_Witness ==
  /\ call.fn = "parse_opml"
  /\ call.done
  /\ call.file.kind = "ok"
  /\ Len(call.file.outlines) = MaxOutlines
  /\ \E i \in 1 .. MaxOutlines : "xmlUrl" \notin DOMAIN call.file.outlines[i]
  /\ \E i \in 1 .. MaxOutlines : /\ "xmlUrl" \in DOMAIN call.file.outlines[i]
                                  /\ call.file.outlines[i]["xmlUrl"] = ""
  /\ Len(ret.feeds) = 1
  /\ ret.feeds[1].title = "Unnamed Feed"

\* An ampersand of a value that starts no reference, and the value with
\* each of them written &amp;
BareAt(value, p) ==
  /\ value[p] = "&"
  /\ EntityAt(value, p + 1) = {}
  /\ \A a \in AmpersandRefs : ~ StartsWith(value, p + 1, a)
RECURSIVE escape_bare(_, _)
escape_bare(value, p) ==
  IF p > Len(value) THEN <<>>
  ELSE IF BareAt(value, p)
       THEN AmpEscaped \o escape_bare(value, p + 1)
       ELSE << value[p] >> \o escape_bare(value, p + 1)
Escaped(outlines) ==
  [i \in 1 .. Len(outlines) |-> [a \in DOMAIN outlines[i] |-> escape_bare(outlines[i][a], 1)]]
HasBare(outlines) ==
  \E i \in 1 .. Len(outlines) : \E a \in DOMAIN outlines[i] :
    \E p \in 1 .. Len(outlines[i][a]) : BareAt(outlines[i][a], p)

\* C21: for a catalog with an unescaped ampersand in an attribute value
\* parse_opml yields what it yields for the catalog with these ampersands
\* escaped; for a catalog that is well-formed as it is written, the
\* pre-pass changes nothing: parse_opml yields what parsing the text as it
\* is yields.
C21_RepairEquivalence ==
  (call.fn = "parse_opml_text" /\ call.done) =>
     /\ HasBare(call.outlines) => ret = parse_opml_text(Escaped(call.outlines))
     /\ ET_fromstring(call.outlines).kind = "ok" =>
          ret = parse_opml(ET_fromstring(call.outlines))

\* C22: in the list handed to the renderer, of two items whose dates are
\* both known the one published later comes first.
C22_ReportNewestFirst ==
  (call.fn = "generate_intelligence_report" /\ call.done) =>
     \A i, j \in 1 .. Len(ret) :
       (i < j /\ ret[i].at # Absent /\ ret[j].at # Absent) => ret[i].at >= ret[j].at

\* C23 (as claimed): a process ends with a non-zero outcome only when
\* keywords.txt cannot be read; when it cannot, no feed is processed and the
\* stored ledger is left as it was.
NonZero == pc \in {"crashed", "failed"}

C23_NonZeroOnlyOnKeywords ==
  /\ NonZero => ~ keywords_txt.exists
  /\ (pc = "crashed" /\ ~ keywords_txt.exists) => (log = <<>> /\ disk = disk0)

\* C23 (amended): a process ends with a non-zero outcome when keywords.txt
\* cannot be read, and then no feed is processed and the stored ledger is
\* left as it was, or when the report of a batch that is not empty raises
\* (sys.exit(1) of line 923); a failing feed, a missing or malformed catalog
\* and a corrupt ledger are handled where they happen and the process that
\* met them ends with outcome zero unless its report raises.
C23_NonZeroOutcomes ==
  /\ pc = "crashed" => (~ keywords_txt.exists /\ log = <<>> /\ disk = disk0)
  /\ pc = "failed" => (keywords_txt.exists /\ items # <<>>)
  /\ (pc = "returned" /\ items = <<>>) => ~ ENABLED (Finish /\ pc' = "failed")

\* a process that met a corrupt ledger and a failing feed ends with zero
C23_Witness ==
  /\ pc = "done"
  /\ disk0.kind = "corrupt"
  /\ fetchFailed # {}
  /\ items # <<>>

\* a process that met a missing or malformed catalog ends with zero
C23_WitnessCatalog ==
  /\ pc = "done"
  /\ opml.kind \in {"missing", "malformed"}
  /\ log = <<>>

\* C24: the keyword file named by --keywords and the catalog named by
\* --feeds are the files main loads; the defaults keywords.txt and
\* Reader_Feeds.opml are used only for an option that was not given.
C24_OptionsHonoured ==
  (call.fn = "main" /\ call.done) =>
     /\ ret.keywords_file = parse_args(call.argv).keywords
     /\ ret.opml_file = parse_args(call.argv).feeds

\* C25: while a process runs no key leaves self.processed_items and no key
\* it holds changes its value; an entry that is skipped as a duplicate or as
\* stale, or rejected, leaves the ledger as it was, and an accepted one adds
\* its id alone; so the keys of the ledger are those load_history returned
\* together with exactly the ids accepted by the process.
InRun == pc \in {"feed", "entries", "sleep", "save", "dump", "returned", "done", "failed"}

Kept(before, after) ==
  \A k \in DOMAIN before : k \in DOMAIN after /\ after[k] = before[k]

LedgerKeys ==
  InRun => /\ Kept(ledger0, processed_items)
           /\ DOMAIN processed_items =
                DOMAIN ledger0 \cup { r.entry.link : r \in { q \in LogRecords : IsAccepted(q) } }

LedgerStep ==
  (pc = "entries" /\ Len(log') = Len(log) + 1) =>
     LET r == log'[Len(log')]
     IN  /\ Kept(processed_items, processed_items')
         /\ ~ IsAccepted(r) => processed_items' = processed_items
         /\ IsAccepted(r) =>
              DOMAIN processed_items' = DOMAIN processed_items \cup {r.entry.link}

C25_LedgerFrame == [] LedgerKeys /\ [][LedgerStep]_vars

\* a process that started from a ledger with a key met a duplicate and a
\* rejected or stale entry and accepted another
C25_Witness ==
  /\ pc = "done"
  /\ ledger0 # EmptyLedger
  /\ \E r \in LogRecords : IsAccepted(r)
  /\ \E r \in LogRecords : r.outcome = "duplicate" /\ r.known
  /\ \E r \in LogRecords : r.outcome \in {"stale", "rejected"}

\* C26 (as claimed): process_single_article returns True only when the
\* content was fetched, the summarization succeeded and the note was
\* written; when the summarization fails (the rate limit after every retry,
\* or another error of the API) it returns False, counts the article as
\* failed and not as summarized or created, and writes no note.
C26_TrueOnlyOnSuccess ==
  (call.fn = "process_single_article" /\ call.done) =>
     /\ (~ ret.raised /\ ret.value) =>
          (call.content # <<>> /\ call.last = "ok" /\ article.notes # {})
     /\ call.last \in {"rate_limit", "error"} =>
          /\ ~ ret.raised /\ ~ ret.value
          /\ article.stats.failed = 1
          /\ article.stats.summarized = 0
          /\ article.stats.created = 0
          /\ article.notes = {}

\* What C27 says of every state of a call of summarize_with_claude, but for
\* the number of waits
Summarizing == call.fn \in {"process_single_article", "summarize_with_claude"}

RetryCommon ==
  Summarizing =>
     /\ call.calls <= call.max_retries
     /\ (call.fn = "summarize_with_claude" /\ call.done) =>
          DOMAIN ret = {"summary", "tags", "raw_response"}
     /\ \A k \in 1 .. Len(call.waits) : call.waits[k] = 2 * 2 ^ (k - 1)
     /\ call.last = "error" =>
          /\ call.pc \in {"summarized", "note", "end"}
          /\ call.calls = call.limited + 1
          /\ call.data.summary = ErrorMessage(CHOOSE e \in ExceptionPool : TRUE)

HasReturned == Summarizing /\ call.pc \in {"summarized", "note", "end"}

====
